---------------------------- MODULE Spec2Model ----------------------------
(***************************************************************************)
(* etk.docking: the DockGroup tabbed container                             *)
(* (src/lib/etk/docking/dockgroup.py) as a state machine.                  *)
(*                                                                         *)
(* One DockGroup is modelled.  Its fields are the variables; every public  *)
(* method, signal handler and layout pass of the class is one action, the  *)
(* whole handler including the calls it makes (do_add and do_remove end    *)
(* in set_current_item, which ends in queue_resize).  Indices are 0-based  *)
(* as in the source; TLA+ sequences are 1-based, so tab number i of the    *)
(* source is tabs[i + 1] here.                                             *)
(***************************************************************************)
EXTENDS Integers, Sequences, FiniteSets, TLC

(***************************************************************************)
(* Bounds of the model and values the toolkit supplies.                    *)
(***************************************************************************)
\* Number of DockItem objects the application ever creates.
NumItems == 3

Items == 1 .. NumItems

\* Python's None, for _current_index and for _current_item.
NoIndex == -1
NoItem == 0

\* DockGroup.__init__: self._frame_width, self._spacing.
FrameWidth == 1
Spacing == 3

\* Size requisitions (width, height) the toolkit reports for a tab's icon,
\* a tab's close button, each of the three decoration buttons, and the
\* label of each item.
ImageReq == <<2, 2>>
TabButtonReq == <<2, 2>>
DecoButtonReq == <<2, 2>>
LabelReq(item) == IF item = 3 THEN <<8, 2>> ELSE <<4, 2>>

\* Widths a layout pass may allocate to the group.
AllocWidths == {30, 60}

\* Widths of the layout passes of SpecLayout: 61 is the least width at
\* which a narrow and the wide tab fit side by side, 60 is one less.
LayoutWidths == {30, 60, 61}

\* Widths of the layout passes of SpecStrip: at 30 the strip is narrower
\* than any tab, at 55 it holds a narrow tab next to a squeezed one but not
\* next to the wide one.
StripWidths == {30, 55}

\* Pointer positions (x, y) of motion and button events; mouse buttons.
Pointers == {<<10, 4>>, <<22, 4>>, <<30, 4>>}
Buttons == {1, 3}

\* Arguments the application passes to set_current_item and remove_item.
IndexArgs == (0 - 1) .. NumItems

(***************************************************************************)
(* Widgets handed to gtk.Container.add / remove.  A DockItem, some other   *)
(* gtk.Widget, or (remove_item) a _DockGroupTab record.                    *)
(***************************************************************************)
DockItemWidget(item) == [kind |-> "DockItem", id |-> item]
OtherWidget == [kind |-> "Widget", id |-> 0]
TabObject(tab) == [kind |-> "Tab", id |-> tab.id]

\* Mutant of IsDockItem: the type test accepts every gtk.Widget.
IsAnyWidget(widget) == widget.kind \in {"DockItem", "Widget"}

IsDockItem(widget) == widget.kind = "DockItem"

(***************************************************************************)
(* The drag layer (src/lib/etk/docking/docklayout.py).  The widgets of the *)
(* tree one DockLayout manages: a DockFrame holding a DockPaned, which     *)
(* holds a second DockPaned with a DockGroup and a plain container with a  *)
(* DockGroup; DockItems in the groups; and the DockGroups a drop on a      *)
(* DockPaned creates.  Python's None is the string "None".                 *)
(***************************************************************************)
\* DockGroups a drop creates, at most.
MaxNewGroups == 1

NewGroupNames == <<"groupN1", "groupN2", "groupN3">>
NewGroups == {NewGroupNames[i] : i \in 1 .. MaxNewGroups}

DragItems == {"item", "item2", "item3"}
Containers == {"frame", "paned", "paned2", "box", "groupA", "groupB"}
                  \cup NewGroups
DragWidgets == Containers \cup DragItems

KindOf(w) ==
    CASE w = "frame" -> "DockFrame"
      [] w \in {"paned", "paned2"} -> "DockPaned"
      [] w \in {"groupA", "groupB"} \cup NewGroups -> "DockGroup"
      [] w = "box" -> "Container"
      [] OTHER -> "DockItem"

\* The children of each container as DockLayout.add finds the tree; for a
\* DockGroup, the items of its tabs in tab order.
InitialChildren ==
    [w \in Containers |->
        CASE w = "frame" -> <<"paned">>
          [] w = "paned" -> <<"paned2", "box">>
          [] w = "paned2" -> <<"groupA">>
          [] w = "box" -> <<"groupB">>
          [] w = "groupA" -> <<"item", "item2">>
          [] w = "groupB" -> <<"item3">>
          [] OTHER -> <<>>]

\* A tree without the plain container: both groups are children of a
\* DockPaned.
SourceChildren ==
    [InitialChildren EXCEPT !["paned"] = <<"paned2", "groupB">>,
                            !["box"] = <<>>]

\* MAGIC_BORDER_SIZE
MagicBorderSize == 10

\* self.allocation of the outer DockPaned, which fills the frame.
PanedAlloc == [width |-> 100, height |-> 60]

\* The allocation of every widget in the coordinates of the frame.  The
\* inner DockPaned has the left part of the outer one and the plain
\* container the right part, the handle between them; a child that is alone
\* in its container fills it; a new group takes the place of the handle.
Allocation(w) ==
    CASE w \in {"frame", "paned"} ->
             [x |-> 0, y |-> 0, width |-> PanedAlloc.width,
              height |-> PanedAlloc.height]
      [] w \in {"paned2", "groupA", "item", "item2"} ->
             [x |-> 0, y |-> 0, width |-> 48, height |-> PanedAlloc.height]
      [] w \in {"box", "groupB", "item3"} ->
             [x |-> 52, y |-> 0, width |-> 48, height |-> PanedAlloc.height]
      [] OTHER ->
             [x |-> 48, y |-> 0, width |-> 4, height |-> PanedAlloc.height]

\* Pointer positions in the coordinates of the frame: inside the left
\* group, within the margin of its left edge, and in the right group within
\* the margin of the top edge.
DragPointers == {<<20, 30>>, <<3, 30>>, <<80, 4>>}

\* The widgets the drag events of SpecDrag arrive at.
DragTargets == {"frame", "paned", "groupA", "groupB", "item"}

\* Pointer positions away from every margin: inside the left group, on the
\* handle of the outer DockPaned, inside the right group.
InnerPointers == {<<20, 30>>, <<50, 30>>, <<80, 30>>}

\* What is under the pointer in the widget's own coordinates: the position
\* of a visible tab (a group) or of a handle (a paned), or nothing.
DropHits == {NoIndex, 0}

\* Leave callbacks invoked for one session, at most.
MaxLeaves == 2

\* Drags the DockGroups of the tree begin, at most.
MaxDrags == 1

\* DragData = namedtuple('DragData', 'drop_widget leave received')
DragData(drop_widget, leave, received) ==
    [drop_widget |-> drop_widget, leave |-> leave, received |-> received]

\* self._drag_data = None
NoSession == DragData("None", "None", "None")

\* The DockGroups of the tree and those a drop creates.  Before any drag has
\* begun no group is a drag source and no group's dragcontext holds a tab.
Groups == {w \in Containers : KindOf(w) = "DockGroup"}

NoDrag == [source |-> "None", active |-> FALSE, begun |-> 0,
           of |-> [g \in Groups |-> [dragged_object |-> <<>>,
                                     dragged_tab_index |-> NoIndex]]]

(***************************************************************************)
(* State.                                                                  *)
(***************************************************************************)
VARIABLES
    tabs,               \* self._tabs: sequence of _DockGroupTab records
    visible_tabs,       \* self._visible_tabs: sequence of tab ids
    current_index,      \* self._current_index: 0-based index or NoIndex
    current_item,       \* self._current_item: an item or NoItem
    item_state,         \* per DockItem: "new", "docked" (parent is the
                        \* group) or "destroyed"
    resize_queued,      \* queue_resize() called, no layout pass since
    list_button_shown,  \* self._list_button shown / hidden
    last,               \* the handler that ran last, its argument, whether
                        \* it raised, and the group as it was before it
    drag_data,          \* DockLayout._drag_data: the tracked session
    widgets,            \* per widget of the layout's tree: what the drag
                        \* handlers keep on it
    leaves,             \* leave callbacks invoked for the tracked session
                        \* since it was stored
    tree,               \* the layout's widget tree: the children of each
                        \* container, the containers destroyed, the
                        \* groups created
    dragcontext         \* the source DockGroup of the drag begun last and
                        \* whether that drag is in progress; of each group,
                        \* dragcontext.dragged_object (the items of the
                        \* dragged tabs) and _dragged_tab_index
VARIABLES
    frames,             \* DockLayout.frames: the frames added
    signal_handlers,    \* DockLayout._signal_handlers: widget -> set of
                        \* handler ids
    connected,          \* per widget: the handler ids of the layout's
                        \* callbacks that are connected to it
    parent_of           \* per widget of the application: its parent, or
                        \* "None"

vars == <<tabs, visible_tabs, current_index, current_item, item_state,
          resize_queued, list_button_shown, last, drag_data, widgets, leaves,
          tree, dragcontext, frames, signal_handlers, connected, parent_of>>

\* The fields of the DockGroup, and the state of the drag layer.
groupVars == <<tabs, visible_tabs, current_index, current_item, item_state,
               resize_queued, list_button_shown>>
\* The drag layer, with the handler bookkeeping of the layout and the
\* application's widgets.
dragVars == <<drag_data, widgets, leaves, tree, dragcontext,
              frames, signal_handlers, connected, parent_of>>

\* What `last` keeps of the group as it was before the handler ran: the
\* items of the tabs in order, and the selection.
Snapshot == [items |-> [i \in 1 .. Len(tabs) |-> tabs[i].item],
             current_index |-> current_index,
             current_item |-> current_item]

Ran(op, arg, raised) == [op |-> op, arg |-> arg, raised |-> raised,
                         pre |-> Snapshot]

(***************************************************************************)
(* Helpers on sequences.                                                   *)
(***************************************************************************)
Range(s) == {s[i] : i \in 1 .. Len(s)}

\* list.index(x): 0-based position of the first element equal to x.
IndexOf(s, x) == (CHOOSE i \in 1 .. Len(s) :
                     s[i] = x /\ \A j \in 1 .. (i - 1) : s[j] # x) - 1

\* list.remove(x): s without its first element equal to x.
RemoveFirst(s, x) ==
    LET p == IndexOf(s, x) + 1
    IN  SubSeq(s, 1, p - 1) \o SubSeq(s, p + 1, Len(s))

\* self._tabs[item_num] of remove_item: Python list indexing, negative
\* numbers count from the end, anything else is an IndexError.
PyIndexOk(ts, n) == n >= 0 - Len(ts) /\ n < Len(ts)
PyIndex(ts, n) == IF n < 0 THEN ts[Len(ts) + n + 1] ELSE ts[n + 1]

TabIds(ts) == [i \in 1 .. Len(ts) |-> ts[i].id]

\* self._tabs.index(tab): tabs compare by identity.
TabIndex(ts, id) == IndexOf(TabIds(ts), id)

(***************************************************************************)
(* util._rect_contains: strictly inside, edges excluded.                   *)
(***************************************************************************)
RectContains(rect, x, y) ==
    /\ x > rect.x
    /\ x < rect.x + rect.width
    /\ y > rect.y
    /\ y < rect.y + rect.height

(***************************************************************************)
(* Accessors.                                                              *)
(***************************************************************************)
\* DockGroup.item_num: index of the first tab whose item is `item`, or None.
ItemNum(ts, item) ==
    IF \E i \in 1 .. Len(ts) : ts[i].item = item
    THEN (CHOOSE i \in 1 .. Len(ts) :
             ts[i].item = item /\ \A j \in 1 .. (i - 1) : ts[j].item # item) - 1
    ELSE NoIndex

\* DockGroup.get_n_items
GetNItems == Len(tabs)

\* DockGroup.get_current_item
GetCurrentItem == IF current_item # NoItem THEN current_index ELSE NoIndex

\* Mutant of GetNthItem: the "item_num >= 0" test is left out, so a
\* negative number indexes the list from the end.
GetNthItemWrapNegative(item_num) ==
    IF item_num <= Len(tabs) - 1 /\ item_num >= 0 - Len(tabs)
    THEN PyIndex(tabs, item_num).item
    ELSE NoItem

\* DockGroup.get_nth_item
GetNthItem(item_num) ==
    IF item_num >= 0 /\ item_num <= Len(tabs) - 1
    THEN tabs[item_num + 1].item
    ELSE NoItem

(***************************************************************************)
(* DockGroup.set_current_item, as a function of the tab list: the new      *)
(* (_current_index, _current_item).                                        *)
(***************************************************************************)
\* Mutant of SetCurrentIndex: the "if self._tabs" test is left out.
SetCurrentIndexNoEmptyCheck(ts, item_num) ==
    IF item_num < 0 THEN 0
    ELSE IF item_num > Len(ts) - 1 THEN Len(ts) - 1
    ELSE item_num

\* Mutant of SetCurrentIndex: a negative number selects the last item, as
\* a negative Python index would.
SetCurrentIndexWrapNegative(ts, item_num) ==
    IF Len(ts) > 0
    THEN IF item_num < 0 THEN Len(ts) - 1
         ELSE IF item_num > Len(ts) - 1 THEN Len(ts) - 1
         ELSE item_num
    ELSE NoIndex

\* Mutant of SetCurrentIndex: item_num is taken as counting from 1.
SetCurrentIndexOneBased(ts, item_num) ==
    IF Len(ts) > 0
    THEN IF item_num < 1 THEN 0
         ELSE IF item_num > Len(ts) THEN Len(ts) - 1
         ELSE item_num - 1
    ELSE NoIndex

SetCurrentIndex(ts, item_num) ==
    IF Len(ts) > 0
    THEN IF item_num < 0 THEN 0
         ELSE IF item_num > Len(ts) - 1 THEN Len(ts) - 1
         ELSE item_num
    ELSE NoIndex

SetCurrentItemOf(ts, item_num) ==
    IF Len(ts) > 0
    THEN ts[SetCurrentIndex(ts, item_num) + 1].item
    ELSE NoItem

(***************************************************************************)
(* Handler registration: the widgets of the application.                   *)
(***************************************************************************)
\* Two frames, two containers and a widget that is no container.
RegWidgets == {"frame1", "frame2", "paned1", "group1", "label1"}

\* isinstance(widget, DockFrame)
IsDockFrame(w) == w \in {"frame1", "frame2"}

\* isinstance(widget, gtk.Container)
IsContainer(w) == w # "label1"

\* The signals add_signal_handlers connects.
SignalNames == {"add", "remove", "drag_motion", "drag-leave", "drag-drop",
                "drag-data-received", "drag-end", "drag-failed"}

(***************************************************************************)
(* Init: DockGroup.__init__.                                               *)
(***************************************************************************)
InitFields ==
    /\ tabs = <<>>
    /\ visible_tabs = <<>>
    /\ current_index = NoIndex
    /\ current_item = NoItem
    /\ item_state = [i \in Items |-> "new"]
    /\ resize_queued = FALSE
    /\ list_button_shown = FALSE
    /\ last = [op |-> "init", arg |-> 0, raised |-> FALSE,
               pre |-> [items |-> <<>>, current_index |-> NoIndex,
                        current_item |-> NoItem]]
    /\ drag_data = NoSession
    /\ widgets = [w \in Containers |->
                     [drop_index |-> NoIndex, highlighted |-> FALSE]]
    /\ leaves = 0
    /\ dragcontext = NoDrag
    /\ frames = {}
    /\ signal_handlers = <<>>
    /\ connected = [w \in RegWidgets |-> {}]
    /\ parent_of = [w \in RegWidgets |-> "None"]

\* The layout with the tree of InitialChildren.
Init ==
    /\ InitFields
    /\ tree = [children |-> InitialChildren, destroyed |-> {},
               created |-> {}]

\* The layout with the tree of SourceChildren.
InitTree ==
    /\ InitFields
    /\ tree = [children |-> SourceChildren, destroyed |-> {},
               created |-> {}]

(***************************************************************************)
(* DockGroup.set_current_item, as applied to the state.  `ts` is the tab   *)
(* list at the time of the call.                                           *)
(***************************************************************************)
SetCurrent(ts, item_num) ==
    /\ current_index' = SetCurrentIndex(ts, item_num)
    /\ current_item' = SetCurrentItemOf(ts, item_num)
    /\ resize_queued' = TRUE

(***************************************************************************)
(* DockGroup.do_add.                                                       *)
(***************************************************************************)
\* The identity of the _DockGroupTab object do_add creates: the item's own
\* number, or the next free number of the form item + k * NumItems when a
\* record for that item is already in the list.
RECURSIVE FreshTabId(_, _)
FreshTabId(ts, id) ==
    IF id \in Range(TabIds(ts)) THEN FreshTabId(ts, id + NumItems) ELSE id

NewTab(ts, item) ==
    [id |-> FreshTabId(ts, item), item |-> item, state |-> "NORMAL",
     area |-> [x |-> 0, y |-> 0, width |-> 0, height |-> 0]]

\* Mutant of AddTab: the new tab is inserted in front.
AddTabInFront(ts, item) == <<NewTab(ts, item)>> \o ts

\* self._tabs.append(tab)
AddTab(ts, item) == Append(ts, NewTab(ts, item))

\* Mutant of SetParent: do_add does not parent the item to the group.
SetParentSkipped(state, item) == state

\* tab.item.set_parent(self)
SetParent(state, item) == [state EXCEPT ![item] = "docked"]

DoAdd(widget, ran) ==
    IF ~IsDockItem(widget)
    THEN \* raise
         /\ last' = [ran EXCEPT !.raised = TRUE]
         /\ UNCHANGED <<tabs, visible_tabs, current_index, current_item,
                        item_state, resize_queued, list_button_shown>>
    ELSE LET ts == AddTab(tabs, widget.id)
         IN  /\ tabs' = ts
             /\ item_state' = SetParent(item_state, widget.id)
             /\ SetCurrent(ts, ItemNum(ts, widget.id))
             /\ last' = ran
             /\ UNCHANGED <<visible_tabs, list_button_shown>>

(***************************************************************************)
(* DockGroup.do_remove.                                                    *)
(***************************************************************************)
\* Mutant of RemoveReselect: the index is not adjusted.
RemoveReselectNoShift(index, cur) == index

\* Mutant of RemoveReselect: "<=" for "<".
RemoveReselectOffByOne(index, cur) == IF index <= cur THEN cur - 1 ELSE index

\* "Refresh ourselves": the index do_remove hands to set_current_item.
RemoveReselect(index, cur) == IF index < cur THEN cur - 1 ELSE index

\* self._tabs.remove(tab)
DropTab(ts, index) == SubSeq(ts, 1, index) \o SubSeq(ts, index + 2, Len(ts))

\* Mutant of DropVisible: the removed tab stays in _visible_tabs.
DropVisibleKeep(vis, id) == vis

\* if tab in self._visible_tabs: self._visible_tabs.remove(tab)
DropVisible(vis, id) == IF id \in Range(vis) THEN RemoveFirst(vis, id) ELSE vis

DoRemove(widget, ran) ==
    IF IsDockItem(widget) /\ Len(tabs) > 0
    THEN LET index == ItemNum(tabs, widget.id)
         IN  IF index = NoIndex
             THEN \* self._tabs[None]: TypeError
                  /\ last' = [ran EXCEPT !.raised = TRUE]
                  /\ UNCHANGED <<tabs, visible_tabs, current_index,
                                 current_item, item_state, resize_queued,
                                 list_button_shown>>
             ELSE LET tab == tabs[index + 1]
                      ts == DropTab(tabs, index)
                  IN  /\ visible_tabs' = DropVisible(visible_tabs, tab.id)
                      /\ item_state' =
                             [item_state EXCEPT ![tab.item] = "destroyed"]
                      /\ tabs' = ts
                      /\ SetCurrent(ts, RemoveReselect(index, current_index))
                      /\ last' = ran
                      /\ UNCHANGED list_button_shown
    ELSE /\ last' = ran
         /\ UNCHANGED <<tabs, visible_tabs, current_index, current_item,
                        item_state, resize_queued, list_button_shown>>

(***************************************************************************)
(* Public operations.                                                      *)
(***************************************************************************)
\* Widgets the application hands to append_item: a DockItem that is in no
\* container yet (gtk.Container.add refuses a widget that has a parent), or
\* a widget that is no DockItem.  DockItems are numbered in the order in
\* which they are appended, so the next one is the lowest unused number.
Addable ==
    {DockItemWidget(i) : i \in {j \in Items :
        /\ item_state[j] = "new"
        /\ \A k \in 1 .. (j - 1) : item_state[k] # "new"}} \cup {OtherWidget}

\* DockGroup.append_item: self.add(item)
AppendItem(widget) ==
    /\ widget \in Addable
    /\ DoAdd(widget, Ran("append_item", widget, FALSE))
    /\ UNCHANGED dragVars

\* DockGroup.append_item with a DockItem that is a tab of the group
\* already.  self.add is gtk.Container.add, which refuses a widget that has
\* a parent: it logs a warning and does not emit "add", so do_add does not
\* run and nothing is raised.
AppendDockedItem(item) ==
    /\ item_state[item] = "docked"
    /\ last' = Ran("append_docked", DockItemWidget(item), FALSE)
    /\ UNCHANGED <<tabs, visible_tabs, current_index, current_item,
                   item_state, resize_queued, list_button_shown>>
    /\ UNCHANGED dragVars

\* Mutant of RemoveItemWidget: the tab's DockItem is handed to self.remove.
RemoveItemWidgetItem(ts, item_num) == DockItemWidget(PyIndex(ts, item_num).item)

\* The widget remove_item hands to self.remove: the tab record itself.
RemoveItemWidget(ts, item_num) == TabObject(PyIndex(ts, item_num))

\* DockGroup.remove_item
RemoveItem(item_num) ==
    /\ UNCHANGED dragVars
    /\ IF PyIndexOk(tabs, item_num)
       THEN DoRemove(RemoveItemWidget(tabs, item_num),
                     Ran("remove_item", item_num, FALSE))
       ELSE \* IndexError
            /\ last' = Ran("remove_item", item_num, TRUE)
            /\ UNCHANGED <<tabs, visible_tabs, current_index, current_item,
                           item_state, resize_queued, list_button_shown>>

\* DockGroup.set_current_item
SetCurrentItem(item_num) ==
    /\ SetCurrent(tabs, item_num)
    /\ last' = Ran("set_current_item", item_num, FALSE)
    /\ UNCHANGED <<tabs, visible_tabs, item_state, list_button_shown>>
    /\ UNCHANGED dragVars

(***************************************************************************)
(* Signal handlers of the decoration area.                                 *)
(***************************************************************************)
\* DockGroup._on_tab_button_clicked: the close button of a tab;
\* self.remove(item) with the tab's DockItem.
OnTabButtonClicked(item) ==
    /\ \E i \in 1 .. Len(tabs) : tabs[i].item = item
    /\ DoRemove(DockItemWidget(item), Ran("close", item, FALSE))
    /\ UNCHANGED dragVars

\* DockGroup._on_list_menu_item_activated
OnListMenuItemActivated(id) ==
    /\ id \in Range(TabIds(tabs))
    /\ SetCurrent(tabs, TabIndex(tabs, id))
    /\ last' = Ran("list_menu", id, FALSE)
    /\ UNCHANGED <<tabs, visible_tabs, item_state, list_button_shown>>
    /\ UNCHANGED dragVars

(***************************************************************************)
(* Pointer events.                                                         *)
(***************************************************************************)
TabById(ts, id) == ts[TabIndex(ts, id) + 1]

\* "for tab in self._visible_tabs: if _rect_contains(tab.area, x, y): ...
\* break": the first visible tab under the pointer, as a sequence of at
\* most one tab id.
RECURSIVE FirstHit(_, _, _, _)
FirstHit(ts, vis, x, y) ==
    IF vis = <<>> THEN <<>>
    ELSE IF RectContains(TabById(ts, Head(vis)).area, x, y)
         THEN <<Head(vis)>>
         ELSE FirstHit(ts, Tail(vis), x, y)

\* Mutant of ReleasedIndex: the position among the visible tabs.
ReleasedIndexVisible(ts, vis, id) == IndexOf(vis, id)

\* "self._tabs.index(tab)" of do_button_release_event
ReleasedIndex(ts, vis, id) == TabIndex(ts, id)

\* DockGroup.do_button_release_event
DoButtonReleaseEvent(x, y, button) ==
    /\ UNCHANGED dragVars
    /\ LET hit == FirstHit(tabs, visible_tabs, x, y)
       IN  /\ last' = Ran("button_release", <<x, y, button>>, FALSE)
           /\ IF hit # <<>> /\ button = 1
              THEN /\ SetCurrent(tabs, ReleasedIndex(tabs, visible_tabs,
                                                     hit[1]))
                   /\ UNCHANGED <<tabs, visible_tabs, item_state,
                                  list_button_shown>>
              ELSE \* button 3 pops up the tab menu; nothing else happens
                   UNCHANGED <<tabs, visible_tabs, current_index, current_item,
                               item_state, resize_queued, list_button_shown>>

\* The state do_motion_notify_event gives one tab.
MotionState(tab, vis, x, y) ==
    IF tab.id \in Range(vis)
    THEN IF RectContains(tab.area, x, y) THEN "PRELIGHT" ELSE "NORMAL"
    ELSE tab.state

\* DockGroup.do_motion_notify_event
DoMotionNotifyEvent(x, y) ==
    /\ UNCHANGED dragVars
    /\ LET ts == [i \in 1 .. Len(tabs) |->
                     [tabs[i] EXCEPT !.state =
                                         MotionState(tabs[i], visible_tabs, x, y)]]
       IN  /\ tabs' = ts
           /\ resize_queued' = (resize_queued \/ ts # tabs)
           /\ last' = Ran("motion", <<x, y>>, FALSE)
           /\ UNCHANGED <<visible_tabs, current_index, current_item,
                          item_state, list_button_shown>>

(***************************************************************************)
(* Layout: do_size_request and do_size_allocate.                           *)
(***************************************************************************)
Max(a, b) == IF a >= b THEN a ELSE b

\* do_size_request: tab.area.width and tab.area.height of one tab.
NaturalWidth(item) ==
    FrameWidth + Spacing + ImageReq[1] + Spacing + LabelReq(item)[1] +
    Spacing + TabButtonReq[1] + Spacing + FrameWidth

NaturalHeight(item) ==
    FrameWidth + Spacing +
    Max(ImageReq[2], Max(LabelReq(item)[2], TabButtonReq[2])) +
    Spacing + FrameWidth

\* DockGroup.do_size_request, its effect on the tabs.
DoSizeRequest(ts) ==
    [i \in 1 .. Len(ts) |->
        [ts[i] EXCEPT !.area.width = NaturalWidth(ts[i].item),
                      !.area.height = NaturalHeight(ts[i].item)]]

\* Width of the tab strip: the allocation less frame, spacing and the
\* three decoration buttons.
StripWidth(width) ==
    width - FrameWidth - Spacing - DecoButtonReq[1] - DecoButtonReq[1] -
    DecoButtonReq[1] - Spacing

\* "store the current item's tab position before we reset _visible_tabs"
MaxTabsBeforeCurrent(ts, vis, cur) ==
    IF vis # <<>> /\ ts[cur + 1].id \in Range(vis)
    THEN IndexOf(vis, ts[cur + 1].id)
    ELSE Len(ts)

\* "for tab in reversed(self._tabs[:p])": admit tabs p, p-1, ... (1-based)
\* while they fit and fewer than `limit` have been admitted.
RECURSIVE AdmitLeft(_, _, _, _, _, _)
AdmitLeft(ts, p, avail, vis, count, limit) ==
    IF p >= 1 /\ avail - ts[p].area.width >= 0 /\ count < limit
    THEN AdmitLeft(ts, p - 1, avail - ts[p].area.width,
                   <<ts[p].id>> \o vis, count + 1, limit)
    ELSE [vis |-> vis, avail |-> avail, count |-> count]

\* Mutant of AdmitRight: every tab to the right is admitted.
AdmitRightAll(ts, p, avail, vis) ==
    [vis |-> vis \o [i \in 1 .. (Len(ts) - p + 1) |-> ts[p + i - 1].id],
     avail |-> avail]

\* "for tab in self._tabs[cur + 1:]": admit tabs p, p+1, ... while they fit.
RECURSIVE AdmitRight(_, _, _, _)
AdmitRight(ts, p, avail, vis) ==
    IF p <= Len(ts) /\ avail - ts[p].area.width >= 0
    THEN AdmitRight(ts, p + 1, avail - ts[p].area.width,
                    Append(vis, ts[p].id))
    ELSE [vis |-> vis, avail |-> avail]

\* The new self._visible_tabs of do_size_allocate (tabs non-empty).
ComputeVisible(ts, vis, cur, width) ==
    LET before == MaxTabsBeforeCurrent(ts, vis, cur)
        avail0 == StripWidth(width) - ts[cur + 1].area.width
        left == AdmitLeft(ts, cur, avail0, <<>>, 0, before)
        mid == Append(left.vis, ts[cur + 1].id)
        right == AdmitRight(ts, cur + 2, left.avail, mid)
        extra == AdmitLeft(ts, cur - left.count, right.avail, right.vis,
                           0, Len(ts))
    IN  extra.vis

\* "normal" of do_size_allocate: the width of a tab as the layout pass
\* recomputes it.  (bh, bw) = tab.button.get_child_requisition() binds bw
\* to the second component of the requisition.
NormalWidth(item) ==
    LET bw == TabButtonReq[2]
    IN  FrameWidth + Spacing + ImageReq[1] + Spacing + LabelReq(item)[1] +
        Spacing + bw + Spacing + FrameWidth

\* Mutant of LoneTabWidth: the lone tab always takes the whole strip.
LoneTabWidthFill(tab, width) == StripWidth(width)

\* "If the current item's tab is the only visible tab, we need to
\* recalculate its tab.area.width": if width <= normal: tab.area.width = width
LoneTabWidth(tab, width) ==
    IF StripWidth(width) <= NormalWidth(tab.item) THEN StripWidth(width)
    ELSE tab.area.width

\* "Precalculate x and y for each visible tab": cx before visible tab k.
RECURSIVE OffsetOf(_, _, _)
OffsetOf(ts, vis, k) ==
    IF k <= 1 THEN 0
    ELSE OffsetOf(ts, vis, k - 1) + TabById(ts, vis[k - 1]).area.width

PlaceTabs(ts, vis) ==
    [i \in 1 .. Len(ts) |->
        IF ts[i].id \in Range(vis)
        THEN [ts[i] EXCEPT !.area.x = OffsetOf(ts, vis, IndexOf(vis, ts[i].id) + 1),
                           !.area.y = 0]
        ELSE ts[i]]

\* Mutant of ListButtonNeeded: the button is shown whenever the current tab
\* is not the only tab.
ListButtonNeededSeveral(ts, vis) == Len(ts) > 1

\* "Only show the list button when needed"
ListButtonNeeded(ts, vis) == Len(ts) > Len(vis)

\* A layout pass at the given width: do_size_request first when a resize
\* is queued, then DockGroup.do_size_allocate.
DoSizeAllocate(width) ==
    /\ UNCHANGED dragVars
    /\ LET req == IF resize_queued THEN DoSizeRequest(tabs) ELSE tabs
           vis == IF req # <<>>
                  THEN ComputeVisible(req, visible_tabs, current_index, width)
                  ELSE visible_tabs
           sized == IF Len(vis) = 1 /\ req # <<>>
                    THEN [req EXCEPT ![current_index + 1].area.width =
                                         LoneTabWidth(req[current_index + 1], width)]
                    ELSE req
       IN  /\ visible_tabs' = vis
           /\ tabs' = PlaceTabs(sized, vis)
           /\ list_button_shown' = ListButtonNeeded(sized, vis)
           /\ resize_queued' = FALSE
           /\ last' = Ran("size_allocate", width, FALSE)
           /\ UNCHANGED <<current_index, current_item, item_state>>

(***************************************************************************)
(* Lookups: they return a value and write nothing.  `last` records the     *)
(* argument and the value returned.                                        *)
(***************************************************************************)
\* DockGroup.item_num, called by the application
ItemNumLookup(item) ==
    /\ last' = Ran("item_num", <<item, ItemNum(tabs, item)>>, FALSE)
    /\ UNCHANGED <<tabs, visible_tabs, current_index, current_item,
                   item_state, resize_queued, list_button_shown>>
    /\ UNCHANGED dragVars

\* DockGroup.get_nth_item, called by the application
GetNthItemLookup(item_num) ==
    /\ last' = Ran("get_nth_item", <<item_num, GetNthItem(item_num)>>, FALSE)
    /\ UNCHANGED <<tabs, visible_tabs, current_index, current_item,
                   item_state, resize_queued, list_button_shown>>
    /\ UNCHANGED dragVars

(***************************************************************************)
(* Drag layer: the widget tree.                                            *)
(***************************************************************************)
\* widget.get_parent() in the tree t.  The frame's own parent, a window the
\* layout does not manage and no handler is registered for, counts as None.
ParentIn(t, w) ==
    IF \E c \in Containers : w \in Range(t.children[c])
    THEN CHOOSE c \in Containers : w \in Range(t.children[c])
    ELSE "None"

Parent(w) == ParentIn(tree, w)

\* Whether w is in the tree under the frame, where events reach it.
RECURSIVE InTree(_, _)
InTree(t, w) ==
    IF w = "frame" THEN TRUE
    ELSE IF ParentIn(t, w) = "None" THEN FALSE
    ELSE InTree(t, ParentIn(t, w))

\* len(self._tabs) of a DockGroup of the tree.
GroupTabCount(w) == Len(tree.children[w])

\* widget.get_pointer(): the pointer (x, y, in the coordinates of the frame)
\* in the coordinates of w.
GetPointer(w, x, y) == <<x - Allocation(w).x, y - Allocation(w).y>>

\* Whether the pointer is over w.
PointerOver(w, x, y) ==
    LET a == Allocation(w)
    IN  x >= a.x /\ x < a.x + a.width /\ y >= a.y /\ y < a.y + a.height

\* gtk.Widget.destroy(): w leaves its parent and is gone.
Destroy(t, w) ==
    [t EXCEPT !.children = [c \in Containers |->
                               IF w \in Range(t.children[c])
                               THEN RemoveFirst(t.children[c], w)
                               ELSE t.children[c]],
              !.destroyed = @ \cup {w}]

\* s with x put in at 0-based position at.
InsertAt(s, at, x) == SubSeq(s, 1, at) \o <<x>> \o SubSeq(s, at + 1, Len(s))

\* DockGroup.insert_item(item, position): the item leaves the parent it
\* has, if any, and becomes the tab at `position` of group g; with no
\* position, or one behind the end, it becomes the last tab.
InsertItem(t, g, item, position) ==
    LET without == [c \in Containers |->
                       IF item \in Range(t.children[c])
                       THEN RemoveFirst(t.children[c], item)
                       ELSE t.children[c]]
        ts == without[g]
        at == IF position = NoIndex \/ position > Len(ts) THEN Len(ts)
              ELSE position
    IN  [t EXCEPT !.children = [without EXCEPT ![g] = InsertAt(ts, at, item)]]

\* "for item in items: g.insert_item(item, position)"
RECURSIVE InsertItems(_, _, _, _)
InsertItems(t, g, items, position) ==
    IF items = <<>> THEN t
    ELSE InsertItems(InsertItem(t, g, Head(items), position), g, Tail(items),
                     position)

\* DockPaned.insert_child(child, position)
InsertChild(t, w, child, position) ==
    [t EXCEPT !.children[w] = InsertAt(@, position, child),
              !.created = @ \cup {child}]

\* DockGroup(): the group a drop creates, "None" when the model has none
\* left to create.
NewGroup(t) ==
    IF NewGroups \ t.created = {} THEN "None"
    ELSE CHOOSE g \in NewGroups \ t.created : TRUE

\* reversed(seq)
Reversed(seq) == [i \in 1 .. Len(seq) |-> seq[Len(seq) + 1 - i]]

(***************************************************************************)
(* Drag layer: resolution of the drop target.  x, y are the pointer in the *)
(* coordinates of the frame; hit is what get_tab_at_pos / get_handle_at_pos*)
(* finds there, cur the position of the group's current tab among its      *)
(* visible tabs.  Every operator returns the DragData it resolves to       *)
(* (NoSession for None) and the widgets as its side effects leave them.    *)
(***************************************************************************)
Abs(a) == IF a < 0 THEN 0 - a ELSE a

\* min of Python
MinOf(a, b) == IF a <= b THEN a ELSE b

\* dock_paned_magic_borders; x, y in the coordinates of w.
DockPanedMagicBorders(w, x, y) ==
    IF Abs(MinOf(y, Allocation(w).height - y)) < MagicBorderSize
    THEN DragData(w, "dock_paned_magic_borders_leave", "None")
    ELSE IF Abs(MinOf(x, Allocation(w).width - x)) < MagicBorderSize
         THEN DragData(w, "dock_paned_magic_borders_leave", "None")
         ELSE NoSession

\* The generic magic_borders: DockPaned has its own; dock_frame_magic_borders
\* returns None on every path; the default is `pass`.
MagicBorders(w, x, y) ==
    IF KindOf(w) = "DockPaned"
    THEN DockPanedMagicBorders(w, GetPointer(w, x, y)[1],
                               GetPointer(w, x, y)[2])
    ELSE NoSession

\* dock_group_highlight / dock_paned_highlight
Highlight(ws, w) == [ws EXCEPT ![w].highlighted = TRUE]

\* dock_unhighlight
Unhighlight(ws, w) == [ws EXCEPT ![w].highlighted = FALSE]

\* dock_group_drag_motion: the drop tab index, the highlight, the session.
DockGroupDragMotion(w, hit, cur, ws) ==
    LET index == IF hit # NoIndex THEN hit
                 ELSE IF GroupTabCount(w) > 0 THEN cur
                 ELSE NoIndex
    IN  [data |-> DragData(w, "dock_unhighlight",
                           "dock_group_drag_data_received"),
         widgets |-> Highlight([ws EXCEPT ![w].drop_index = index], w)]

\* dock_paned_drag_motion: the drop handle index, the highlight, the session.
DockPanedDragMotion(w, hit, ws) ==
    [data |-> DragData(w, "dock_unhighlight", "dock_paned_drag_data_received"),
     widgets |-> Highlight([ws EXCEPT ![w].drop_index = hit], w)]

\* Mutant of WithMagicBorders: the widget's own handler first.
WithMagicBordersOwnFirst(w, x, y, ws, own) == own

\* with_magic_borders: the parent's magic_borders first, the widget's own
\* handler only if the parent does not take the event.
WithMagicBorders(w, x, y, ws, own) ==
    LET handled == IF Parent(w) # "None" THEN MagicBorders(Parent(w), x, y)
                   ELSE NoSession
    IN  IF handled # NoSession THEN [data |-> handled, widgets |-> ws]
        ELSE own

\* The generic drag_motion; its default propagates to the parent.
RECURSIVE DragMotion(_, _, _, _, _, _)
DragMotion(w, x, y, hit, cur, ws) ==
    IF KindOf(w) = "DockGroup"
    THEN WithMagicBorders(w, x, y, ws, DockGroupDragMotion(w, hit, cur, ws))
    ELSE IF KindOf(w) = "DockPaned"
    THEN WithMagicBorders(w, x, y, ws, DockPanedDragMotion(w, hit, ws))
    ELSE IF Parent(w) # "None" THEN DragMotion(Parent(w), x, y, hit, cur, ws)
    ELSE [data |-> NoSession, widgets |-> ws]

\* The widget whose own drag_motion handler an event at w reaches: w or
\* its nearest ancestor that is a DockGroup or a DockPaned.
RECURSIVE MotionHandler(_)
MotionHandler(w) ==
    IF KindOf(w) \in {"DockGroup", "DockPaned"} THEN w
    ELSE IF Parent(w) # "None" THEN MotionHandler(Parent(w))
    ELSE "None"

\* The hits the pointer can have on the tabs or handles of widget h.
HitsOn(h) ==
    {NoIndex} \cup
    {n \in DropHits :
        /\ n >= 0
        /\ h # "None"
        /\ IF KindOf(h) = "DockGroup" THEN n < Len(tree.children[h])
           ELSE n < Len(tree.children[h]) - 1}

\* The positions the current tab of h can have when no tab is hit.
CurrentPositions(h, hit) ==
    IF hit = NoIndex /\ h # "None" /\ KindOf(h) = "DockGroup"
       /\ Len(tree.children[h]) > 0
    THEN 0 .. (Len(tree.children[h]) - 1)
    ELSE {NoIndex}

(***************************************************************************)
(* Drag layer: the received callbacks.  Each returns the tree as it        *)
(* leaves it, whether it raised, and whether it called context.finish.     *)
(***************************************************************************)
\* Mutant of DraggedOrder: the dragged tabs are inserted in their own order.
DraggedOrderForward(dragged_object) == dragged_object

\* "for tab in reversed(source.dragcontext.dragged_object)"
DraggedOrder(dragged_object) == Reversed(dragged_object)

\* dock_group_drag_data_received of group w; source is
\* context.get_source_widget().
DockGroupDragDataReceived(w, source, t, ws, ctx) ==
    IF source = "None"
    THEN [tree |-> t, raised |-> TRUE, finished |-> FALSE]
    ELSE [tree |-> InsertItems(t, w, DraggedOrder(ctx[source].dragged_object),
                               ws[w].drop_index),
          raised |-> FALSE, finished |-> TRUE]

\* Mutant of NewChildPosition: the new group goes in front of the handle.
NewChildPositionBefore(drop_handle_index) == drop_handle_index

\* "self._drop_handle_index + 1"
NewChildPosition(drop_handle_index) == drop_handle_index + 1

\* dock_paned_drag_data_received of paned w.  Without a source widget
\* source.dragcontext fails; without a handle None + 1 fails, after
\* DockGroup() and before insert_child: that group is in no tree.
DockPanedDragDataReceived(w, source, t, ws, ctx) ==
    IF source = "None" \/ ws[w].drop_index = NoIndex
    THEN [tree |-> t, raised |-> TRUE, finished |-> FALSE]
    ELSE LET dock_group == NewGroup(t)
             inserted == InsertChild(t, w, dock_group,
                                     NewChildPosition(ws[w].drop_index))
         IN  [tree |-> InsertItems(inserted, dock_group,
                                   ctx[source].dragged_object, NoIndex),
              raised |-> FALSE, finished |-> TRUE]

\* drag_data.received(selection_data, info); None is not callable.
Received(slot, source, t, ws, ctx) ==
    IF slot.received = "dock_group_drag_data_received"
    THEN DockGroupDragDataReceived(slot.drop_widget, source, t, ws, ctx)
    ELSE IF slot.received = "dock_paned_drag_data_received"
    THEN DockPanedDragDataReceived(slot.drop_widget, source, t, ws, ctx)
    ELSE [tree |-> t, raised |-> TRUE, finished |-> FALSE]

\* Whether the callback creates a group.
ReceivedCreates(slot, source, ws) ==
    /\ slot.received = "dock_paned_drag_data_received"
    /\ source # "None"
    /\ ws[slot.drop_widget].drop_index # NoIndex

(***************************************************************************)
(* Drag layer: the handlers of DockLayout.  `last` records, besides the    *)
(* handler and its argument, the slot as it was before, the callbacks the  *)
(* handler invoked in order, and the value it returned.                    *)
(***************************************************************************)
DragRan(op, arg, raised, calls, result) ==
    [op |-> op, arg |-> arg, raised |-> raised, pre |-> Snapshot,
     slot |-> drag_data, calls |-> calls, result |-> result]

\* One invocation of a callback: its name, the widget it is applied to, and
\* self._drag_data at the time.
Call(fn, w, slot) == [fn |-> fn, widget |-> w, slot |-> slot]

\* on_widget_drag_leave as a function of self._drag_data: the leave
\* callback it invokes, if any.
LeaveCalls(slot) ==
    IF slot # NoSession /\ slot.leave # "None"
    THEN <<Call(slot.leave, slot.drop_widget, slot)>>
    ELSE <<>>

\* The effect of the invoked leave callbacks on the widgets.
LeaveEffect(calls, ws) ==
    IF calls # <<>> /\ calls[1].fn = "dock_unhighlight"
    THEN Unhighlight(ws, calls[1].widget)
    ELSE ws

\* Mutant of SlotAtLeave: the slot is replaced before the leave callback
\* is invoked.
SlotAtLeaveReplaced(old, new) == new

\* self._drag_data as on_widget_drag_leave finds it when on_widget_drag_motion
\* calls it: the assignment of the new session comes after the call.
SlotAtLeave(old, new) == old

\* DockLayout.on_widget_drag_motion, on a widget of the tree the pointer is
\* over.
OnWidgetDragMotion(w, x, y, hit, cur) ==
    LET res == DragMotion(w, x, y, hit, cur, widgets)
        old_drop_widget == drag_data.drop_widget
        new_drop_widget == res.data.drop_widget
        differs == new_drop_widget # old_drop_widget
        calls == IF differs THEN LeaveCalls(SlotAtLeave(drag_data, res.data))
                 ELSE <<>>
    IN  /\ InTree(tree, w)
        /\ PointerOver(w, x, y)
        /\ hit \in HitsOn(MotionHandler(w))
        /\ cur \in CurrentPositions(MotionHandler(w), hit)
        /\ drag_data' = IF differs THEN res.data ELSE drag_data
        /\ widgets' = LeaveEffect(calls, res.widgets)
        /\ leaves' = IF differs THEN 0 ELSE leaves
        /\ last' = DragRan("drag_motion",
                           [widget |-> w, x |-> x, y |-> y, hit |-> hit,
                            cur |-> cur],
                           FALSE, calls, "None")
        /\ UNCHANGED <<tree, dragcontext, groupVars,
            frames, signal_handlers, connected, parent_of>>

\* DockLayout.on_widget_drag_leave, on a widget's drag-leave signal; the
\* handler does not look at the widget.
OnWidgetDragLeave ==
    LET calls == LeaveCalls(drag_data)
    IN  /\ leaves + Len(calls) <= MaxLeaves
        /\ widgets' = LeaveEffect(calls, widgets)
        /\ leaves' = leaves + Len(calls)
        /\ last' = DragRan("drag_leave", "None", FALSE, calls, "None")
        /\ UNCHANGED <<drag_data, tree, dragcontext, groupVars,
            frames, signal_handlers, connected, parent_of>>

\* Mutant of DropSession: the payload type the context offers is not looked at.
DropSessionAnyType(offers, slot) == slot

\* "if DRAG_TARGET_ITEM_LIST[0] in context.targets: drag_data =
\* self._drag_data else: drag_data = None"
DropSession(offers, slot) == IF offers THEN slot ELSE NoSession

\* DockLayout.on_widget_drag_drop; the handler does not look at the widget.
OnWidgetDragDrop(offers) ==
    LET data == DropSession(offers, drag_data)
        calls == IF data # NoSession /\ data.drop_widget # "None"
                 THEN <<Call("drag_get_data", data.drop_widget, drag_data)>>
                 ELSE <<>>
        result == IF data # NoSession THEN data.received ELSE "None"
    IN  /\ last' = DragRan("drag_drop", [offers |-> offers], FALSE, calls,
                           result)
        /\ UNCHANGED <<drag_data, widgets, leaves, tree, dragcontext,
                       groupVars,
                       frames, signal_handlers, connected, parent_of>>

\* Mutant of ReceivedMissing: only a tracked session without a callback
\* stops the handler.
ReceivedMissingInSession(slot) == slot # NoSession /\ slot.received = "None"

\* "assert drag_data.received": with no session the attribute lookup on
\* None fails, with a session whose received is None the assertion does.
ReceivedMissing(slot) == slot = NoSession \/ slot.received = "None"

\* DockLayout.on_widget_drag_data_received; the handler does not look at
\* the widget.  `source` tells whether context.get_source_widget() finds a
\* widget: it does while a drag begun by a DockGroup of the tree is in
\* progress.
OnWidgetDragDataReceived(source) ==
    /\ source = dragcontext.active
    /\ UNCHANGED <<widgets, dragcontext, groupVars,
        frames, signal_handlers, connected, parent_of>>
    /\ IF ReceivedMissing(drag_data)
       THEN \* raised before "try"
            /\ last' = DragRan("drag_data_received", [source |-> source],
                               TRUE, <<>>, "None")
            /\ UNCHANGED <<drag_data, leaves, tree>>
       ELSE \* try: drag_data.received(...) finally: self._drag_data = None
            LET src == IF source THEN dragcontext.source ELSE "None"
                out == Received(drag_data, src, tree, widgets,
                                dragcontext.of)
                called == <<Call(drag_data.received, drag_data.drop_widget,
                                 drag_data)>>
                finish == IF out.finished
                          THEN <<Call("context.finish(True, True)",
                                      drag_data.drop_widget, drag_data)>>
                          ELSE <<>>
            IN  /\ ReceivedCreates(drag_data, src, widgets)
                       => NewGroup(tree) # "None"
                /\ tree' = out.tree
                /\ last' = DragRan("drag_data_received",
                                   [source |-> source], out.raised,
                                   called \o finish, "None")
                /\ drag_data' = NoSession
                /\ leaves' = 0

RECURSIVE DragEnd(_, _)

\* dock_group_drag_end: a group without tabs is destroyed, and drag_end goes
\* on at the parent it had.  The tree as it is left and the value returned.
DockGroupDragEnd(t, w) ==
    LET parent == ParentIn(t, w)
    IN  IF t.children[w] = <<>>
        THEN IF parent # "None" THEN DragEnd(Destroy(t, w), parent)
             ELSE [tree |-> Destroy(t, w), result |-> "None"]
        ELSE [tree |-> t, result |-> "None"]

\* Mutant of DockPanedDragEnd: the DockPaned is destroyed without a look at
\* its items.
DockPanedDragEndUnchecked(t, w) ==
    LET parent == ParentIn(t, w)
    IN  IF parent # "None" THEN DragEnd(Destroy(t, w), parent)
        ELSE [tree |-> Destroy(t, w), result |-> "None"]

\* dock_paned_drag_end: a DockPaned without items is destroyed, and drag_end
\* goes on at the parent it had.
DockPanedDragEnd(t, w) ==
    LET parent == ParentIn(t, w)
    IN  IF t.children[w] = <<>>
        THEN IF parent # "None" THEN DragEnd(Destroy(t, w), parent)
             ELSE [tree |-> Destroy(t, w), result |-> "None"]
        ELSE [tree |-> t, result |-> "None"]

\* The generic drag_end; its default asks the parent.
DragEnd(t, w) ==
    IF KindOf(w) = "DockGroup" THEN DockGroupDragEnd(t, w)
    ELSE IF KindOf(w) = "DockPaned" THEN DockPanedDragEnd(t, w)
    ELSE IF ParentIn(t, w) # "None" THEN DragEnd(t, ParentIn(t, w))
    ELSE [tree |-> t, result |-> "None"]

\* DockLayout.on_widget_drag_end, on a widget of the tree; the toolkit ends
\* the drag with it.
OnWidgetDragEnd(w) ==
    /\ InTree(tree, w)
    /\ tree' = DragEnd(tree, w).tree
    /\ dragcontext' = [dragcontext EXCEPT !.active = FALSE]
    /\ last' = DragRan("drag_end", [widget |-> w], FALSE, <<>>,
                       DragEnd(tree, w).result)
    /\ UNCHANGED <<drag_data, widgets, leaves, groupVars,
        frames, signal_handlers, connected, parent_of>>

\* Mutant of Orphans: every dragged item is taken.
OrphansAll(t, dragged_object) == dragged_object

\* "for tab in self.dragcontext.dragged_object: if not
\* tab.item.get_parent()": the dragged items without a parent, in order.
Orphans(t, dragged_object) ==
    SelectSeq(dragged_object, LAMBDA item : ParentIn(t, item) = "None")

\* dock_group_drag_failed of group w: the tree as it is left.
DockGroupDragFailed(w, t, ctx) ==
    InsertItems(t, w, Orphans(t, ctx[w].dragged_object),
                ctx[w].dragged_tab_index)

\* The generic drag_failed: dock_group_drag_failed returns True; the
\* default asks the parent.  The tree as it is left and the value returned.
RECURSIVE DragFailed(_, _, _)
DragFailed(t, w, ctx) ==
    IF KindOf(w) = "DockGroup"
    THEN [tree |-> DockGroupDragFailed(w, t, ctx), result |-> "True"]
    ELSE IF ParentIn(t, w) # "None" THEN DragFailed(t, ParentIn(t, w), ctx)
    ELSE [tree |-> t, result |-> "None"]

\* DockLayout.on_widget_drag_failed, on a widget of the tree.
OnWidgetDragFailed(w) ==
    /\ InTree(tree, w)
    /\ tree' = DragFailed(tree, w, dragcontext.of).tree
    /\ last' = DragRan("drag_failed", [widget |-> w], FALSE, <<>>,
                       DragFailed(tree, w, dragcontext.of).result)
    /\ UNCHANGED <<drag_data, widgets, leaves, dragcontext, groupVars,
        frames, signal_handlers, connected, parent_of>>

\* A DockGroup of the tree begins a drag of one of its tabs, or of all of
\* them: the dragged tabs go into its dragcontext, their items leave the
\* group, and _dragged_tab_index is the index of the first of them.
DragBegin(g, first, count) ==
    LET ts == tree.children[g]
        dragged == SubSeq(ts, first + 1, first + count)
    IN  /\ ~dragcontext.active
        /\ dragcontext.begun < MaxDrags
        /\ KindOf(g) = "DockGroup"
        /\ InTree(tree, g)
        /\ first >= 0
        /\ count >= 1
        /\ first + count <= Len(ts)
        /\ count = 1 \/ (first = 0 /\ count = Len(ts))
        /\ tree' = [tree EXCEPT !.children[g] =
                       SubSeq(ts, 1, first) \o
                       SubSeq(ts, first + count + 1, Len(ts))]
        /\ dragcontext' =
               [source |-> g, active |-> TRUE,
                begun |-> dragcontext.begun + 1,
                of |-> [dragcontext.of EXCEPT ![g] =
                           [dragged_object |-> dragged,
                            dragged_tab_index |-> first]]]
        /\ last' = DragRan("drag_begin",
                           [widget |-> g, first |-> first, count |-> count],
                           FALSE, <<>>, "None")
        /\ UNCHANGED <<drag_data, widgets, leaves, groupVars,
            frames, signal_handlers, connected, parent_of>>

(***************************************************************************)
(* Specification.                                                          *)
(***************************************************************************)
Next ==
    \/ \E widget \in Addable : AppendItem(widget)
    \/ \E n \in IndexArgs : RemoveItem(n)
    \/ \E n \in IndexArgs : SetCurrentItem(n)
    \/ \E item \in Items : OnTabButtonClicked(item)
    \/ \E id \in Range(TabIds(tabs)) : OnListMenuItemActivated(id)
    \/ \E p \in Pointers, b \in Buttons : DoButtonReleaseEvent(p[1], p[2], b)
    \/ \E width \in AllocWidths : DoSizeAllocate(width)

Spec == Init /\ [][Next]_vars

\* The group with the application also adding items it has added before.
NextAdd ==
    \/ Next
    \/ \E item \in Items : AppendDockedItem(item)

SpecAdd == Init /\ [][NextAdd]_vars

\* The group under layout passes at the widths of LayoutWidths, with the
\* operations that change the tab list and the selection.
NextLayout ==
    \/ \E widget \in Addable : AppendItem(widget)
    \/ \E n \in IndexArgs : SetCurrentItem(n)
    \/ \E item \in Items : OnTabButtonClicked(item)
    \/ \E width \in LayoutWidths : DoSizeAllocate(width)

SpecLayout == Init /\ [][NextLayout]_vars

\* The group under layout passes at the widths of StripWidths, with or
\* without a size request before them.
NextStrip ==
    \/ \E widget \in Addable : AppendItem(widget)
    \/ \E n \in IndexArgs : SetCurrentItem(n)
    \/ \E item \in Items : OnTabButtonClicked(item)
    \/ \E width \in StripWidths : DoSizeAllocate(width)

SpecStrip == Init /\ [][NextStrip]_vars

\* The group under pointer motion, with the operations that change the tab
\* list, the selection and the layout.
NextPointer ==
    \/ \E widget \in Addable : AppendItem(widget)
    \/ \E n \in IndexArgs : SetCurrentItem(n)
    \/ \E item \in Items : OnTabButtonClicked(item)
    \/ \E width \in AllocWidths : DoSizeAllocate(width)
    \/ \E p \in Pointers : DoMotionNotifyEvent(p[1], p[2])

SpecPointer == Init /\ [][NextPointer]_vars

\* The DockLayout under the drag events the toolkit delivers to the
\* widgets of its tree.
NextDrag ==
    \/ \E w \in DragTargets, p \in DragPointers :
           /\ PointerOver(w, p[1], p[2])
           /\ \E hit \in HitsOn(MotionHandler(w)) :
                  \E cur \in CurrentPositions(MotionHandler(w), hit) :
                      OnWidgetDragMotion(w, p[1], p[2], hit, cur)
    \/ OnWidgetDragLeave
    \/ \E offers \in BOOLEAN : OnWidgetDragDrop(offers)
    \/ \E source \in BOOLEAN : OnWidgetDragDataReceived(source)
    \/ \E w \in DragTargets : OnWidgetDragEnd(w)
    \/ \E w \in DragTargets : OnWidgetDragFailed(w)

SpecDrag == Init /\ [][NextDrag]_vars

\* The DockLayout under the drags its DockGroups begin: the motion events
\* of a drag come before its other events, the pointer away from the
\* margins, over a group or a DockPaned; a drop offers the docking payload;
\* drag-end and drag-failed arrive at a group.
NextTree ==
    \/ \E g \in Groups :
           \E first \in 0 .. Len(tree.children[g]),
              count \in 1 .. Len(tree.children[g]) :
               DragBegin(g, first, count)
    \/ \E w \in Containers, p \in InnerPointers :
           /\ last.op \in {"drag_begin", "drag_motion"}
           /\ KindOf(w) \in {"DockGroup", "DockPaned"}
           /\ PointerOver(w, p[1], p[2])
           /\ \E hit \in HitsOn(w) :
                  \E cur \in CurrentPositions(w, hit) :
                      OnWidgetDragMotion(w, p[1], p[2], hit, cur)
    \/ OnWidgetDragDrop(TRUE)
    \/ \E source \in BOOLEAN : OnWidgetDragDataReceived(source)
    \/ \E g \in Groups : OnWidgetDragEnd(g)
    \/ \E g \in Groups : OnWidgetDragFailed(g)

SpecTree == InitTree /\ [][NextTree]_vars

\* One drag gesture after the other, every event in the order the toolkit
\* delivers it: drag-begin at a group, motion events over the widgets under
\* the pointer, drag-leave, drag-drop, drag-data-received if the drop
\* fetched the payload, drag-failed if the drop was not taken, drag-end at
\* the source.
NextGesture ==
    \/ \E g \in Groups :
           \E first \in 0 .. Len(tree.children[g]),
              count \in 1 .. Len(tree.children[g]) :
               /\ last.op \in {"init", "drag_end"}
               /\ DragBegin(g, first, count)
    \/ \E w \in DragWidgets, p \in DragPointers \cup InnerPointers :
           /\ last.op \in {"drag_begin", "drag_motion"}
           /\ PointerOver(w, p[1], p[2])
           /\ \E hit \in HitsOn(MotionHandler(w)) :
                  \E cur \in CurrentPositions(MotionHandler(w), hit) :
                      OnWidgetDragMotion(w, p[1], p[2], hit, cur)
    \/ /\ last.op = "drag_motion"
       /\ OnWidgetDragLeave
    \/ /\ last.op = "drag_leave"
       /\ OnWidgetDragDrop(TRUE)
    \/ /\ last.op = "drag_drop"
       /\ last.calls # <<>>
       /\ OnWidgetDragDataReceived(TRUE)
    \/ /\ last.op = "drag_drop"
       /\ last.calls = <<>>
       /\ OnWidgetDragFailed(dragcontext.source)
    \/ /\ last.op \in {"drag_data_received", "drag_failed"}
       /\ OnWidgetDragEnd(dragcontext.source)

SpecGesture == InitTree /\ [][NextGesture]_vars

\* Resolution and delegation over the containers of the tree and an item:
\* motion, drag-end and drag-failed events.
NextBorders ==
    \/ \E w \in Containers \cup {"item"}, p \in DragPointers :
           /\ PointerOver(w, p[1], p[2])
           /\ \E hit \in HitsOn(MotionHandler(w)) :
                  \E cur \in CurrentPositions(MotionHandler(w), hit) :
                      OnWidgetDragMotion(w, p[1], p[2], hit, cur)
    \/ \E w \in Containers \cup {"item"} : OnWidgetDragEnd(w)
    \/ \E w \in Containers \cup {"item"} : OnWidgetDragFailed(w)

SpecBorders == Init /\ [][NextBorders]_vars

\* The group with the application also calling its lookups.
NextLookup ==
    \/ Next
    \/ \E item \in Items : ItemNumLookup(item)
    \/ \E n \in IndexArgs : GetNthItemLookup(n)

SpecLookup == Init /\ [][NextLookup]_vars

(***************************************************************************)
(* Handler registration.  `reg` is the bookkeeping a call works on: the    *)
(* handler map and the connections; `par` gives each widget's parent.      *)
(***************************************************************************)
\* gtk.Container.foreach: the children of w.
ChildrenOf(par, w) == {c \in RegWidgets : par[c] = w}

\* The widget at the top of the tree w is in.
RECURSIVE RootOf(_, _)
RootOf(par, w) == IF par[w] = "None" THEN w ELSE RootOf(par, par[w])

\* w and everything below it.
RECURSIVE SubtreeOf(_, _)
SubtreeOf(par, w) ==
    {w} \cup UNION {SubtreeOf(par, c) : c \in ChildrenOf(par, w)}

\* widget.connect(name, callback): the id of the new connection, a handler
\* id not in use on the widget.
NewHandlerId(live, name) ==
    <<name, CHOOSE k \in 1 .. (Cardinality(live) + 1) :
                /\ <<name, k>> \notin live
                /\ \A j \in 1 .. (k - 1) : <<name, j>> \in live>>

\* Mutant of AlreadyRegistered: no widget counts as registered.
AlreadyRegisteredNever(handlers, w) == FALSE

\* "if self._signal_handlers.get(widget): return"
AlreadyRegistered(handlers, w) ==
    w \in DOMAIN handlers /\ handlers[w] # {}

\* Mutant of ChildrenToVisit: the children are not visited.
ChildrenToVisitNone(par, w) == {}

\* "if isinstance(widget, gtk.Container): widget.foreach(...)"
ChildrenToVisit(par, w) == IF IsContainer(w) THEN ChildrenOf(par, w) ELSE {}

\* self._signal_handlers[widget] = signals
SetEntry(handlers, w, signals) ==
    [x \in DOMAIN handlers \cup {w} |->
        IF x = w THEN signals ELSE handlers[x]]

\* del self._signal_handlers[widget]
DelEntry(handlers, w) == [x \in DOMAIN handlers \ {w} |-> handlers[x]]

RECURSIVE AddSignalHandlers(_, _, _)
RECURSIVE AddSignalHandlersEach(_, _, _)

\* DockLayout.add_signal_handlers
AddSignalHandlers(reg, par, w) ==
    IF AlreadyRegistered(reg.signal_handlers, w) THEN reg
    ELSE LET signals == {NewHandlerId(reg.connected[w], name) :
                            name \in SignalNames}
             connect == [signal_handlers |->
                             SetEntry(reg.signal_handlers, w, signals),
                         connected |->
                             [reg.connected EXCEPT ![w] = @ \cup signals]]
         IN  AddSignalHandlersEach(connect, par, ChildrenToVisit(par, w))

\* widget.foreach(self.add_signal_handlers)
AddSignalHandlersEach(reg, par, ws) ==
    IF ws = {} THEN reg
    ELSE LET w == CHOOSE x \in ws : TRUE
         IN  AddSignalHandlersEach(AddSignalHandlers(reg, par, w), par,
                                   ws \ {w})

RECURSIVE RemoveSignalHandlers(_, _, _)
RECURSIVE RemoveSignalHandlersEach(_, _, _)

\* DockLayout.remove_signal_handlers
RemoveSignalHandlers(reg, par, w) ==
    IF w \notin DOMAIN reg.signal_handlers THEN reg
    ELSE LET signals == reg.signal_handlers[w]
             disconnect == [signal_handlers |->
                                DelEntry(reg.signal_handlers, w),
                            connected |->
                                [reg.connected EXCEPT ![w] = @ \ signals]]
         IN  RemoveSignalHandlersEach(disconnect, par,
                 IF IsContainer(w) THEN ChildrenOf(par, w) ELSE {})

\* widget.foreach(self.remove_signal_handlers)
RemoveSignalHandlersEach(reg, par, ws) ==
    IF ws = {} THEN reg
    ELSE LET w == CHOOSE x \in ws : TRUE
         IN  RemoveSignalHandlersEach(RemoveSignalHandlers(reg, par, w), par,
                                      ws \ {w})

\* The bookkeeping as it is.
Reg == [signal_handlers |-> signal_handlers, connected |-> connected]

\* Whether a callback of the layout is connected to signal `name` of w.
Connected(w, name) == \E id \in connected[w] : id[1] = name

\* DockLayout.on_widget_add
OnWidgetAdd(reg, par, widget) ==
    IF IsContainer(widget) THEN AddSignalHandlers(reg, par, widget) ELSE reg

\* DockLayout.on_widget_remove
OnWidgetRemove(reg, par, widget) ==
    IF IsContainer(widget) THEN RemoveSignalHandlers(reg, par, widget)
    ELSE reg

\* DockLayout.add
LayoutAdd(frame) ==
    LET reg == AddSignalHandlers(Reg, parent_of, frame)
    IN  /\ IF ~IsDockFrame(frame)
           THEN \* AssertionError
                /\ last' = Ran("layout_add", frame, TRUE)
                /\ UNCHANGED <<frames, signal_handlers, connected>>
           ELSE /\ frames' = frames \cup {frame}
                /\ signal_handlers' = reg.signal_handlers
                /\ connected' = reg.connected
                /\ last' = Ran("layout_add", frame, FALSE)
        /\ UNCHANGED <<parent_of, groupVars, drag_data, widgets, leaves,
                       tree, dragcontext>>

\* DockLayout.remove: the handlers go first, then frames.remove(frame),
\* which raises KeyError for a frame that was not added.
LayoutRemove(frame) ==
    LET reg == RemoveSignalHandlers(Reg, parent_of, frame)
    IN  /\ signal_handlers' = reg.signal_handlers
        /\ connected' = reg.connected
        /\ frames' = frames \ {frame}
        /\ last' = Ran("layout_remove", frame, frame \notin frames)
        /\ UNCHANGED <<parent_of, groupVars, drag_data, widgets, leaves,
                       tree, dragcontext>>

\* The application calls add_signal_handlers on a widget of a managed tree.
Reregister(w) ==
    LET reg == AddSignalHandlers(Reg, parent_of, w)
    IN  /\ RootOf(parent_of, w) \in frames
        /\ signal_handlers' = reg.signal_handlers
        /\ connected' = reg.connected
        /\ last' = Ran("add_signal_handlers", w, FALSE)
        /\ UNCHANGED <<frames, parent_of, groupVars, drag_data, widgets,
                       leaves, tree, dragcontext>>

\* The application adds a widget without a parent to a container; the
\* container emits "add", and on_widget_add runs if it is connected.
ContainerAdd(container, widget) ==
    LET par == [parent_of EXCEPT ![widget] = container]
        reg == IF Connected(container, "add")
               THEN OnWidgetAdd(Reg, par, widget)
               ELSE Reg
    IN  /\ IsContainer(container)
        /\ ~IsDockFrame(widget)
        /\ parent_of[widget] = "None"
        /\ container \notin SubtreeOf(parent_of, widget)
        /\ parent_of' = par
        /\ signal_handlers' = reg.signal_handlers
        /\ connected' = reg.connected
        /\ last' = Ran("container_add",
                       [container |-> container, widget |-> widget], FALSE)
        /\ UNCHANGED <<frames, groupVars, drag_data, widgets, leaves, tree,
                       dragcontext>>

\* The application removes a widget from its parent; the parent emits
\* "remove", and on_widget_remove runs if it is connected.
ContainerRemove(widget) ==
    LET container == parent_of[widget]
        par == [parent_of EXCEPT ![widget] = "None"]
        reg == IF Connected(container, "remove")
               THEN OnWidgetRemove(Reg, par, widget)
               ELSE Reg
    IN  /\ container # "None"
        /\ parent_of' = par
        /\ signal_handlers' = reg.signal_handlers
        /\ connected' = reg.connected
        /\ last' = Ran("container_remove",
                       [container |-> container, widget |-> widget], FALSE)
        /\ UNCHANGED <<frames, groupVars, drag_data, widgets, leaves, tree,
                       dragcontext>>

\* The layout's bookkeeping under the application building and taking apart
\* its widget trees.  add is called with any widget, remove with a frame,
\* added before or not.
NextRegister ==
    \/ \E w \in RegWidgets : LayoutAdd(w)
    \/ \E w \in RegWidgets : IsDockFrame(w) /\ LayoutRemove(w)
    \/ \E w \in RegWidgets : Reregister(w)
    \/ \E c, w \in RegWidgets : ContainerAdd(c, w)
    \/ \E w \in RegWidgets : ContainerRemove(w)

SpecRegister == Init /\ [][NextRegister]_vars

(***************************************************************************)
(* Properties.                                                             *)
(***************************************************************************)
\* The tab the selection points at, as a set of at most one tab id.
CurrentTabId ==
    IF current_index >= 0 /\ current_index < Len(tabs)
    THEN {tabs[current_index + 1].id}
    ELSE {}

\* s is a subsequence of t: its elements occur in t, once each, in the
\* same relative order.
IsSubsequence(s, t) ==
    /\ \A i \in 1 .. Len(s) : s[i] \in Range(t)
    /\ \A i, j \in 1 .. Len(s) : i < j => IndexOf(t, s[i]) < IndexOf(t, s[j])

ItemsOf(ts) == [i \in 1 .. Len(ts) |-> ts[i].item]

\* 0-based position of the item a close-button removal removed, in the tab
\* list as it was before.
RemovedIndex == IndexOf(last.pre.items, last.arg)

Min(a, b) == IF a <= b THEN a ELSE b

\* C1: after any sequence of operations, current_index is None iff there
\* are no tabs; otherwise it is a valid index, current_item is the item of
\* the tab at that index, and get_current_item() returns None exactly when
\* the group is empty.
C1_SelectionInvariant ==
    /\ (current_index = NoIndex) <=> (tabs = <<>>)
    /\ tabs # <<>> =>
          /\ 0 <= current_index
          /\ current_index < Len(tabs)
          /\ current_item = tabs[current_index + 1].item
    /\ (GetCurrentItem = NoIndex) <=> (tabs = <<>>)

\* A removal through a close button has left two tabs, the last selected.
C1_Witness ==
    /\ last.op = "close"
    /\ Len(tabs) = 2
    /\ current_index = 1

\* C2 as stated: in every reachable state visible_tabs is a subsequence of
\* tabs in their order and, when there are tabs, holds the current tab.
C2_AlwaysHoldsCurrent ==
    /\ IsSubsequence(visible_tabs, TabIds(tabs))
    /\ tabs # <<>> => CurrentTabId \subseteq Range(visible_tabs)

\* C2 amended: visible_tabs is always a subsequence of tabs in their order;
\* it holds the current tab whenever there are tabs and no layout pass is
\* pending (visible_tabs is recomputed by the layout pass only).
C2_VisibleTabs ==
    /\ IsSubsequence(visible_tabs, TabIds(tabs))
    /\ (tabs # <<>> /\ ~resize_queued) =>
          /\ CurrentTabId # {}
          /\ CurrentTabId \subseteq Range(visible_tabs)

\* A layout pass of three tabs has hidden at least one of them.
C2_Witness ==
    /\ last.op = "size_allocate"
    /\ Len(tabs) = 3
    /\ Len(visible_tabs) < 3
    /\ ~resize_queued

\* C3: set_current_item(n) on a non-empty group selects 0 for n < 0, the
\* last index for n >= count, and n otherwise; on an empty group it leaves
\* the selection at None.
C3_SetCurrentItemClamps ==
    last.op = "set_current_item" =>
        LET n == last.arg
            count == Len(tabs)
        IN  /\ count = 0 => current_index = NoIndex /\ current_item = NoItem
            /\ (count > 0 /\ n < 0) => current_index = 0
            /\ (count > 0 /\ n >= count) => current_index = count - 1
            /\ (count > 0 /\ n >= 0 /\ n < count) => current_index = n

\* set_current_item with a number beyond the last index of a group of
\* three has selected the last tab, while another tab was selected before.
C3_Witness ==
    /\ last.op = "set_current_item"
    /\ Len(tabs) = 3
    /\ last.arg >= 3
    /\ current_index = 2
    /\ last.pre.current_index = 0

\* C4: set_current_item with the index that is already current changes
\* nothing of the group (tabs with their states and areas, visible_tabs,
\* selection); its only effect is the queued layout pass.
C4_SetCurrentItemIdempotent ==
    [][(/\ last'.op = "set_current_item"
        /\ current_index # NoIndex
        /\ last'.arg = current_index)
       => /\ UNCHANGED <<tabs, visible_tabs, current_index, current_item,
                         item_state, list_button_shown>>
          /\ resize_queued']_vars

\* set_current_item was called with the current index of a laid-out group
\* of three tabs.
C4_Witness ==
    /\ last.op = "set_current_item"
    /\ last.pre.current_index = 1
    /\ last.arg = 1
    /\ Len(tabs) = 3
    /\ Len(visible_tabs) >= 2

\* C5: append_item with a DockItem adds one tab at the end, the tabs that
\* were there keep their positions, and the new tab is current:
\* get_n_items() grew by one and get_current_item() = get_n_items() - 1.
C5_AppendItem ==
    (last.op = "append_item" /\ IsDockItem(last.arg)) =>
        /\ ~last.raised
        /\ GetNItems = Len(last.pre.items) + 1
        /\ SubSeq(ItemsOf(tabs), 1, Len(last.pre.items)) = last.pre.items
        /\ tabs[Len(tabs)].item = last.arg.id
        /\ GetCurrentItem = GetNItems - 1
        /\ current_item = last.arg.id

\* A third item was appended while the first tab was current.
C5_Witness ==
    /\ last.op = "append_item"
    /\ IsDockItem(last.arg)
    /\ Len(tabs) = 3
    /\ last.pre.current_index = 0
    /\ current_index = 2

\* C6: adding a widget that is no DockItem raises and leaves the group as
\* it was: no tab is created, tabs, visible_tabs and the selection keep
\* their values.
C6_AddNonDockItemRaises ==
    [][(last'.op = "append_item" /\ ~(last'.arg.kind = "DockItem"))
       => /\ last'.raised
          /\ UNCHANGED <<tabs, visible_tabs, current_index, current_item,
                         item_state>>]_vars

\* A widget that is no DockItem was handed to a group that has tabs.
C6_Witness ==
    /\ last.op = "append_item"
    /\ last.arg.kind = "Widget"
    /\ last.raised
    /\ Len(tabs) = 2

\* C7 as stated: remove_item(i) with 0 <= i < get_n_items() removes the tab
\* at index i: one tab fewer, its item destroyed and gone from tabs and
\* visible_tabs, the other tabs in their order.
C7_RemoveItemRemoves ==
    (/\ last.op = "remove_item"
     /\ last.arg >= 0
     /\ last.arg < Len(last.pre.items)) =>
        LET i == last.arg
            gone == last.pre.items[i + 1]
        IN  /\ Len(tabs) = Len(last.pre.items) - 1
            /\ item_state[gone] = "destroyed"
            /\ \A k \in 1 .. Len(tabs) : tabs[k].item # gone
            /\ ItemsOf(tabs) = SubSeq(last.pre.items, 1, i) \o
                               SubSeq(last.pre.items, i + 2,
                                      Len(last.pre.items))

\* C8: removing a tab whose index is below the current index moves the
\* current index down by one; the current item is the same as before.
C8_RemoveBeforeCurrent ==
    (last.op = "close" /\ RemovedIndex < last.pre.current_index) =>
        /\ current_index = last.pre.current_index - 1
        /\ current_item = last.pre.current_item
        /\ tabs[current_index + 1].item = last.pre.current_item

\* The first of three tabs was closed while the last one was current.
C8_Witness ==
    /\ last.op = "close"
    /\ Len(last.pre.items) = 3
    /\ RemovedIndex = 0
    /\ last.pre.current_index = 2
    /\ current_index = 1

\* C9: removing the current tab at index i of n > 1 tabs leaves the current
\* index at min(i, n - 2): the former successor is current, or the former
\* predecessor when the last tab was removed; removing the only tab makes
\* get_current_item() return None.
C9_RemoveCurrent ==
    (last.op = "close" /\ RemovedIndex = last.pre.current_index) =>
        LET i == RemovedIndex
            n == Len(last.pre.items)
        IN  /\ n > 1 =>
                /\ current_index = Min(i, n - 2)
                /\ GetCurrentItem = Min(i, n - 2)
                /\ i < n - 1 => current_item = last.pre.items[i + 2]
                /\ i = n - 1 => current_item = last.pre.items[i]
            /\ n = 1 => GetCurrentItem = NoIndex

\* The current tab, index 1 of 3, was closed: index 1 is current and is the
\* former index 2.
C9_Witness ==
    /\ last.op = "close"
    /\ Len(last.pre.items) = 3
    /\ RemovedIndex = 1
    /\ last.pre.current_index = 1
    /\ current_index = 1
    /\ current_item = last.pre.items[3]

\* C10 as stated: removing a tab whose index is above the current index
\* keeps the current index and the current item.
C10_RemoveAfterCurrent ==
    (last.op = "close" /\ RemovedIndex > last.pre.current_index) =>
        /\ current_index = last.pre.current_index
        /\ current_item = last.pre.current_item

\* C11: remove_item(n) with n outside [0, get_n_items() - 1] (negative, or
\* at least the count, any n on an empty group) removes no tab and leaves
\* tabs, visible_tabs and the selection as they were.
C11_RemoveItemOutOfRange ==
    [][(/\ last'.op = "remove_item"
        /\ (last'.arg < 0 \/ last'.arg >= Len(tabs)))
       => UNCHANGED <<tabs, visible_tabs, current_index, current_item,
                      item_state>>]_vars

\* remove_item(-1) was called on a group of three tabs: the number is out
\* of range for the group and in range for the Python list.
C11_Witness ==
    /\ last.op = "remove_item"
    /\ last.arg = 0 - 1
    /\ Len(tabs) = 3
    /\ ~last.raised

\* C12: lookups return a sentinel on a miss, never raise and change
\* nothing: item_num(item) is the index of the tab that owns item, or None
\* when no tab does; get_nth_item(n) is the item of tab n for
\* 0 <= n < count and None for every other n, negative n included.
C12_LookupMisses ==
    [][(last'.op \in {"item_num", "get_nth_item"}) =>
          LET arg == last'.arg[1]
              res == last'.arg[2]
          IN  /\ ~last'.raised
              /\ UNCHANGED <<tabs, visible_tabs, current_index, current_item,
                             item_state, resize_queued, list_button_shown>>
              /\ last'.op = "item_num" =>
                    IF \E i \in 1 .. Len(tabs) : tabs[i].item = arg
                    THEN /\ res >= 0
                         /\ res < Len(tabs)
                         /\ tabs[res + 1].item = arg
                    ELSE res = NoIndex
              /\ last'.op = "get_nth_item" =>
                    IF arg >= 0 /\ arg < Len(tabs)
                    THEN res = tabs[arg + 1].item
                    ELSE res = NoItem]_vars

\* get_nth_item(-1) on a group of three tabs returned None.
C12_Witness ==
    /\ last.op = "get_nth_item"
    /\ last.arg = <<0 - 1, NoItem>>
    /\ Len(tabs) = 3

\* C13: after any sequence of additions and removals, adding an item that
\* is a tab already included, no two tab records hold the same item and
\* the item of every tab record has the group as its parent.
C13_NoDuplicateItems ==
    /\ \A i, j \in 1 .. Len(tabs) : i # j => tabs[i].item # tabs[j].item
    /\ \A i \in 1 .. Len(tabs) : item_state[tabs[i].item] = "docked"

\* An item that is a tab was added again, after another tab had been
\* removed; two tabs are left.
C13_Witness ==
    /\ last.op = "append_docked"
    /\ Len(tabs) = 2
    /\ \E i \in Items : item_state[i] = "destroyed"
    /\ \E i \in 1 .. 2 : tabs[i].item = last.arg.id

\* Number of visible tabs in front of the current tab.
TabsBeforeCurrent(ts, vis, cur) == IndexOf(vis, ts[cur + 1].id)

\* Every tab has the width do_size_request gives it.
NaturalWidths(ts) ==
    \A i \in 1 .. Len(ts) : ts[i].area.width = NaturalWidth(ts[i].item)

\* C14 as stated: when a layout pass is followed by a layout pass at the
\* same or a smaller width, tabs, tab widths and current index being the
\* same, the second pass leaves no more visible tabs in front of the
\* current tab than the first.
C14_LayoutStability ==
    [][(/\ last.op = "size_allocate"
        /\ last'.op = "size_allocate"
        /\ last'.arg <= last.arg
        /\ tabs # <<>>
        /\ NaturalWidths(tabs)
        /\ NaturalWidths(tabs'))
       => TabsBeforeCurrent(tabs', visible_tabs', current_index')
              <= TabsBeforeCurrent(tabs, visible_tabs, current_index)]_vars

\* The current tab's record.
CurrentTab(ts, cur) == ts[cur + 1]

\* C15 as stated: when a layout pass leaves the current tab as the only
\* visible tab, the tab's width is the width of the whole tab strip.
C15_LoneTabFillsStrip ==
    (last.op = "size_allocate" /\ Len(visible_tabs) = 1) =>
        CurrentTab(tabs, current_index).area.width = StripWidth(last.arg)

\* C15 amended: when a layout pass leaves the current tab as the only
\* visible tab, the tab's width is the strip width if the strip is no wider
\* than the tab's normal width as the pass computes it; if the strip is
\* wider, the tab keeps the width it had going into the pass.
C15_LoneTabWidth ==
    [][(last'.op = "size_allocate" /\ Len(visible_tabs') = 1) =>
          LET strip == StripWidth(last'.arg)
              tab == CurrentTab(tabs, current_index)
              had == IF resize_queued THEN NaturalWidth(tab.item)
                     ELSE tab.area.width
              has == CurrentTab(tabs', current_index').area.width
          IN  IF strip <= NormalWidth(tab.item)
              THEN has = strip
              ELSE has = had]_vars

\* A layout pass at width 60 has laid out a group of one tab: the strip is
\* wider than the tab, and the tab has its natural width.
C15_Witness ==
    /\ last.op = "size_allocate"
    /\ last.arg = 60
    /\ Len(tabs) = 1
    /\ visible_tabs = <<tabs[1].id>>
    /\ tabs[1].area.width = NaturalWidth(tabs[1].item)
    /\ StripWidth(60) > NaturalWidth(tabs[1].item)

\* C16: after every layout pass the list button is shown if and only if
\* some tab of the group is not in visible_tabs; it is hidden when no tab
\* is hidden, on an empty group too.
C16_ListButton ==
    last.op = "size_allocate" =>
        (list_button_shown <=>
            \E i \in 1 .. Len(tabs) : tabs[i].id \notin Range(visible_tabs))

\* A layout pass of three tabs has hidden one of them and shown the button.
C16_Witness ==
    /\ last.op = "size_allocate"
    /\ Len(tabs) = 3
    /\ Len(visible_tabs) = 2
    /\ list_button_shown

\* The session a motion event resolves to in the state it arrives in.
Resolved(arg) ==
    DragMotion(arg.widget, arg.x, arg.y, arg.hit, arg.cur, widgets).data

\* C17: on a drag-motion event that resolves to a drop target other than
\* the tracked session's, the tracked session's leave callback, if there is
\* one, is invoked on the old drop target while the slot still holds the
\* old session, and the slot then holds the new session; with no session
\* tracked no leave callback is invoked and the new session is stored.
C17_LeaveBeforeReplace ==
    [][(/\ last'.op = "drag_motion"
        /\ Resolved(last'.arg).drop_widget # drag_data.drop_widget)
       => /\ drag_data' = Resolved(last'.arg)
          /\ IF drag_data # NoSession /\ drag_data.leave # "None"
             THEN last'.calls = <<Call(drag_data.leave, drag_data.drop_widget,
                                       drag_data)>>
             ELSE last'.calls = <<>>]_vars

\* A motion over groupB while the session of groupA was tracked: the leave
\* callback ran on groupA and the slot holds the session of groupB.
C17_Witness ==
    /\ last.op = "drag_motion"
    /\ last.slot.drop_widget = "groupA"
    /\ drag_data.drop_widget = "groupB"
    /\ Len(last.calls) = 1
    /\ last.calls[1].widget = "groupA"
    /\ last.calls[1].fn = "dock_unhighlight"

\* C18 as stated: over any sequence of drag-motion and drag-leave events,
\* when a session for another target replaces the tracked session, the old
\* target has had exactly one leave notification since its session was
\* stored; and a motion that resolves to the tracked target stores nothing.
C18_ExactlyOneLeave ==
    [][(/\ last'.op = "drag_motion"
        /\ drag_data # NoSession)
       => IF Resolved(last'.arg).drop_widget # drag_data.drop_widget
          THEN Resolved(last'.arg) # NoSession
                   => leaves + Len(last'.calls) = 1
          ELSE drag_data' = drag_data]_vars

\* C19 as stated: after a drag-end or a drag-failed event has been handled
\* no session is tracked.
C19_ClearedOnEnd ==
    last.op \in {"drag_end", "drag_failed"} => drag_data = NoSession

\* C20: on a drag-drop event the tracked drop target is asked to fetch the
\* payload if and only if the context offers the docking payload type and
\* a session is tracked; otherwise nothing is fetched and the drop is
\* reported as not accepted; the event changes neither the slot nor any
\* tab sequence.
C20_DropFetch ==
    [][(last'.op = "drag_drop") =>
          LET fetch == last'.arg.offers /\ drag_data # NoSession
          IN  /\ fetch => last'.calls = <<Call("drag_get_data",
                                               drag_data.drop_widget,
                                               drag_data)>>
              /\ ~fetch => last'.calls = <<>> /\ last'.result = "None"
              /\ UNCHANGED <<drag_data, widgets, groupVars>>]_vars

\* A drop that offers the payload type while the session of groupB is
\* tracked: groupB is asked to fetch the payload.
C20_Witness ==
    /\ last.op = "drag_drop"
    /\ last.arg.offers
    /\ drag_data.drop_widget = "groupB"
    /\ Len(last.calls) = 1
    /\ last.calls[1].fn = "drag_get_data"
    /\ last.calls[1].widget = "groupB"

\* The items of the tabs being dragged by the source of the drag in
\* progress, <<>> when no drag is.
DraggedNow ==
    IF dragcontext.active
    THEN dragcontext.of[dragcontext.source].dragged_object
    ELSE <<>>

\* C21: a drag-data-received event that arrives while no session is tracked
\* raises an error before any received callback is invoked, and changes
\* nothing in the tree: no tab is inserted anywhere and no container is
\* created.
C21_NoSessionFails ==
    [][(last'.op = "drag_data_received" /\ drag_data = NoSession)
       => /\ last'.raised
          /\ last'.calls = <<>>
          /\ tree' = tree]_vars

\* A drag-data-received event has arrived with no session tracked while a
\* group's drag of two tabs was in progress, and it raised.
C21_Witness ==
    /\ last.op = "drag_data_received"
    /\ last.slot = NoSession
    /\ last.raised
    /\ Len(DraggedNow) = 2
    /\ tree.created = {}

\* C22 as stated: after a drag-data-received event has been handled while a
\* session was tracked, the session slot is empty, whatever the received
\* callback did, and also when the session has no received callback.
C22_ClearedAfterReceived ==
    (last.op = "drag_data_received" /\ last.slot # NoSession)
        => drag_data = NoSession

\* C23 as stated: in a drag gesture whose events arrive in the toolkit's
\* order, over groups, DockPaneds and the frame, with the pointer on a tab,
\* off the tabs, on a handle, off the handles or within the border margin of
\* a DockPaned, no handler of the coordinator raises.
C23_NoHandlerRaises ==
    last.op \in {"drag_motion", "drag_leave", "drag_drop",
                 "drag_data_received", "drag_failed", "drag_end"}
        => ~last.raised

\* seq without the elements of the set out.
Without(seq, out) == SelectSeq(seq, LAMBDA e : e \notin out)

NewlyDestroyed == tree'.destroyed \ tree.destroyed

\* C26: on a drag-end event at a tabbed group of the tree, the group is
\* destroyed if and only if it has no tabs; a DockPaned is destroyed if and
\* only if its only child was destroyed by the same event; nothing else is
\* destroyed, so the cascade stops at the first ancestor that still has a
\* child; and what is not destroyed keeps its children but the destroyed.
C26_DestroyCascade ==
    [][(/\ last'.op = "drag_end"
        /\ KindOf(last'.arg.widget) = "DockGroup")
       => LET g == last'.arg.widget
          IN  /\ g \in NewlyDestroyed <=> tree.children[g] = <<>>
              /\ \A c \in Containers \ {g} :
                     c \in NewlyDestroyed <=>
                         /\ KindOf(c) = "DockPaned"
                         /\ Len(tree.children[c]) = 1
                         /\ tree.children[c][1] \in NewlyDestroyed
              /\ \A c \in Containers :
                     tree'.children[c] =
                         Without(tree.children[c], NewlyDestroyed)
              /\ tree'.created = tree.created]_vars

\* A drag-end at groupA, all of whose tabs were dragged away: groupA and the
\* inner DockPaned are destroyed, the outer DockPaned keeps groupB.
C26_Witness ==
    /\ last.op = "drag_end"
    /\ last.arg.widget = "groupA"
    /\ tree.destroyed = {"groupA", "paned2"}
    /\ tree.children["paned"] = <<"groupB">>
    /\ tree.children["frame"] = <<"paned">>

\* C27: on a drag-failed event at a tabbed group of the tree, each item of
\* the group's dragged object that has no parent is inserted into the group
\* at the group's dragged index, one after the other, so that the last one
\* inserted stands at that index and the ones before it follow; the group's
\* other tabs keep their order; an item that still has a parent stays where
\* it is; no other container changes; and the handler returns True, also
\* when no item was inserted.
C27_FailedReinserts ==
    [][(/\ last'.op = "drag_failed"
        /\ KindOf(last'.arg.widget) = "DockGroup")
       => LET g == last'.arg.widget
              index == dragcontext.of[g].dragged_tab_index
              dragged == dragcontext.of[g].dragged_object
              orphans == SelectSeq(dragged,
                             LAMBDA item : Parent(item) = "None")
              old == tree.children[g]
          IN  /\ last'.result = "True"
              /\ ~last'.raised
              /\ \A item \in Range(orphans) : ParentIn(tree', item) = g
              /\ \A item \in Range(dragged) \ Range(orphans) :
                     ParentIn(tree', item) = Parent(item)
              /\ Without(tree'.children[g], Range(orphans)) = old
              /\ (orphans # <<>> /\ index <= Len(old))
                     => tree'.children[g] =
                            SubSeq(old, 1, index) \o Reversed(orphans) \o
                            SubSeq(old, index + 1, Len(old))
              /\ orphans = <<>> => tree' = tree
              /\ \A c \in Containers \ {g} :
                     tree'.children[c] = tree.children[c]
              /\ tree'.destroyed = tree.destroyed
              /\ tree'.created = tree.created]_vars

\* A drag-failed at groupA, which dragged its second tab and was never a
\* drop target: item2, without a parent, is back in groupA at index 1.
C27_Witness ==
    /\ last.op = "drag_failed"
    /\ last.arg.widget = "groupA"
    /\ last.result = "True"
    /\ dragcontext.of["groupA"].dragged_object = <<"item2">>
    /\ tree.children["groupA"] = <<"item", "item2">>
    /\ widgets["groupA"].drop_index = NoIndex

\* C28: when a drag-failed event arrives at the group that began the drag
\* in progress while every dragged item is still without a parent, the
\* group's tabs afterwards are its tabs as they were before the drag began:
\* the remaining tabs with the dragged items, in their dragged order, back
\* at the dragged index.
C28_CancelRestores ==
    [][(/\ last'.op = "drag_failed"
        /\ dragcontext.active
        /\ last'.arg.widget = dragcontext.source
        /\ DraggedNow # <<>>
        /\ \A item \in Range(DraggedNow) : Parent(item) = "None")
       => LET g == dragcontext.source
              index == dragcontext.of[g].dragged_tab_index
              old == tree.children[g]
          IN  tree'.children[g] =
                  SubSeq(old, 1, index) \o DraggedNow \o
                  SubSeq(old, index + 1, Len(old))]_vars

\* The parent of w is a DockPaned and the pointer at frame position (x, y)
\* is within the border margin of one of that DockPaned's edges.
ParentClaims(w, x, y) ==
    /\ Parent(w) # "None"
    /\ KindOf(Parent(w)) = "DockPaned"
    /\ LET p == Parent(w)
           px == GetPointer(p, x, y)[1]
           py == GetPointer(p, x, y)[2]
       IN  \/ Abs(MinOf(py, Allocation(p).height - py)) < MagicBorderSize
           \/ Abs(MinOf(px, Allocation(p).width - px)) < MagicBorderSize

\* C29: for a drag-motion event on a tabbed group or a DockPaned, if the
\* parent's magic-border check claims the event, the resolved drop target is
\* the parent and the widget's own handler has not run: its drop index is
\* what it was and it is not newly highlighted.  If the parent declines, or
\* there is none, the widget's own handler runs: the widget is the drop
\* target, is highlighted, and its drop index is the one of this event.
C29_BorderAffinity ==
    [][(/\ last'.op = "drag_motion"
        /\ KindOf(last'.arg.widget) \in {"DockGroup", "DockPaned"})
       => LET w == last'.arg.widget
              a == last'.arg
              own == IF KindOf(w) = "DockPaned" \/ a.hit # NoIndex THEN a.hit
                     ELSE IF tree.children[w] # <<>> THEN a.cur
                     ELSE NoIndex
          IN  IF ParentClaims(w, a.x, a.y)
              THEN /\ drag_data'.drop_widget = Parent(w)
                   /\ widgets'[w].drop_index = widgets[w].drop_index
                   /\ widgets'[w].highlighted => widgets[w].highlighted
              ELSE /\ drag_data'.drop_widget = w
                   /\ widgets'[w].drop_index = own
                   /\ widgets'[w].highlighted]_vars

\* A motion event on groupA over its first tab, 3 pixels from the left edge
\* of the inner DockPaned: the DockPaned is the drop target, and groupA has
\* recorded no drop index and is not highlighted.
C29_Witness ==
    /\ last.op = "drag_motion"
    /\ last.arg.widget = "groupA"
    /\ last.arg.x = 3
    /\ last.arg.hit = 0
    /\ drag_data.drop_widget = "paned2"
    /\ widgets["groupA"].drop_index = NoIndex
    /\ ~widgets["groupA"].highlighted

\* The border check of w as it would resolve if a container without a
\* check of its own asked its parent.
RECURSIVE MagicBordersDelegating(_, _, _)
MagicBordersDelegating(w, x, y) ==
    IF KindOf(w) = "DockPaned"
    THEN DockPanedMagicBorders(w, GetPointer(w, x, y)[1],
                               GetPointer(w, x, y)[2])
    ELSE IF KindOf(w) = "DockFrame" \/ Parent(w) = "None" THEN NoSession
    ELSE MagicBordersDelegating(Parent(w), x, y)

\* C30: an event at a widget whose kind has no handler of its own resolves
\* as the same event at its parent, and as "no drop target / not handled"
\* when it has no parent: a drag-motion yields the parent's drop target, a
\* drag-end and a drag-failed leave the tree and return what they do at the
\* parent, and the border check a motion handler asks of the parent is
\* answered by the nearest ancestor that has one.
C30_DefaultsDelegate ==
    [][LET w == last'.arg.widget
           a == last'.arg
           plain == KindOf(w) \notin {"DockGroup", "DockPaned"}
       IN  /\ (last'.op = "drag_motion" /\ plain)
                  => drag_data'.drop_widget =
                         IF Parent(w) = "None" THEN "None"
                         ELSE DragMotion(Parent(w), a.x, a.y, a.hit, a.cur,
                                         widgets).data.drop_widget
           /\ (last'.op = "drag_end" /\ plain)
                  => IF Parent(w) = "None"
                     THEN tree' = tree /\ last'.result = "None"
                     ELSE /\ tree' = DragEnd(tree, Parent(w)).tree
                          /\ last'.result = DragEnd(tree, Parent(w)).result
           /\ (last'.op = "drag_failed" /\ plain)
                  => IF Parent(w) = "None"
                     THEN tree' = tree /\ last'.result = "None"
                     ELSE /\ tree' = DragFailed(tree, Parent(w),
                                                dragcontext.of).tree
                          /\ last'.result =
                                 DragFailed(tree, Parent(w),
                                            dragcontext.of).result
           /\ (/\ last'.op = "drag_motion"
               /\ ~plain
               /\ Parent(w) # "None"
               /\ MagicBordersDelegating(Parent(w), a.x, a.y) # NoSession)
                  => drag_data'.drop_widget =
                         MagicBordersDelegating(Parent(w), a.x,
                                                a.y).drop_widget]_vars


\* The pointer at frame position (x, y) is within the border margin of an
\* edge of the root frame.
NearFrameBorder(x, y) ==
    \/ x < MagicBorderSize
    \/ Allocation("frame").width - x < MagicBorderSize
    \/ y < MagicBorderSize
    \/ Allocation("frame").height - y < MagicBorderSize

\* C31: a drag-motion event that reaches the root frame itself, no DockPaned
\* or tabbed group below it having taken it, with the pointer within the
\* border margin of the frame, resolves to a session whose drop target is
\* the root frame.
C31_FrameCatchAll ==
    [][(/\ last'.op = "drag_motion"
        /\ last'.arg.widget = "frame"
        /\ NearFrameBorder(last'.arg.x, last'.arg.y))
       => drag_data'.drop_widget = "frame"]_vars


\* The connections of the layout's callbacks to signal `name` of w.
Subscriptions(w, name) == {id \in connected[w] : id[1] = name}

\* Every widget in the handler map has exactly one connection for each of
\* the eight signals, the map holds exactly these, and a widget without an
\* entry has no connection.
OncePerWidget ==
    \A w \in RegWidgets :
        IF w \in DOMAIN signal_handlers
        THEN /\ \A name \in SignalNames :
                    Cardinality(Subscriptions(w, name)) = 1
             /\ signal_handlers[w] = connected[w]
             /\ Cardinality(connected[w]) = Cardinality(SignalNames)
        ELSE connected[w] = {}

\* C32: after every add(frame), remove(frame), child addition, child removal
\* and registration attempt, every registered widget has exactly one
\* subscription for each of the eight signals; and add_signal_handlers on a
\* widget that is registered changes neither the handler map nor any
\* connection.
C32_HandlersOnce ==
    [][/\ OncePerWidget'
       /\ (/\ last'.op = "add_signal_handlers"
           /\ last'.arg \in DOMAIN signal_handlers)
              => UNCHANGED <<signal_handlers, connected, frames>>]_vars

\* add_signal_handlers was called on the registered paned1 of frame1, with
\* group1 below it registered as well.
C32_Witness ==
    /\ last.op = "add_signal_handlers"
    /\ last.arg = "paned1"
    /\ parent_of["paned1"] = "frame1"
    /\ parent_of["group1"] = "paned1"
    /\ {"frame1", "paned1", "group1"} \subseteq DOMAIN signal_handlers
    /\ OncePerWidget


\* The widgets in the trees of the frames added to the layout.
Managed == UNION {SubtreeOf(parent_of, f) : f \in frames}

C35_PrelightExact ==
    last.op = "motion"
        => \A i \in 1 .. Len(tabs) :
               tabs[i].state = "PRELIGHT" <=>
                   /\ tabs[i].id \in Range(visible_tabs)
                   /\ RectContains(tabs[i].area, last.arg[1], last.arg[2])


\* The 1-based positions in `tabs` of the visible tabs whose hit rectangle
\* strictly contains (x, y).
TabsUnder(x, y) ==
    {i \in 1 .. Len(tabs) :
        /\ tabs[i].id \in Range(visible_tabs)
        /\ RectContains(tabs[i].area, x, y)}

\* C36: a release of button 1 strictly inside the hit rectangle of a visible
\* tab makes that tab the current one: current_index becomes its index in
\* the tab list and current_item its item.  A release of button 1 outside
\* every visible tab's hit rectangle, and a release of button 3 anywhere,
\* leave the selection unchanged.  No release changes the tab list or the
\* visible tabs.
C36_ReleaseSelects ==
    [][last'.op = "button_release"
       => LET x == last'.arg[1]
              y == last'.arg[2]
              button == last'.arg[3]
          IN  /\ tabs' = tabs
              /\ visible_tabs' = visible_tabs
              /\ ~last'.raised
              /\ IF button = 1 /\ TabsUnder(x, y) # {}
                 THEN \A i \in TabsUnder(x, y) :
                          /\ current_index' = i - 1
                          /\ current_item' = tabs[i].item
                 ELSE UNCHANGED <<current_index, current_item>>]_vars

\* A release of button 1 over the first tab while the second was current:
\* the first tab is current now.
C36_Witness ==
    /\ last.op = "button_release"
    /\ last.arg = <<10, 4, 1>>
    /\ last.pre.current_index = 1
    /\ current_index = 0
    /\ current_item = tabs[1].item


\* Sum of the widths the tabs with the ids of vis carry.
RECURSIVE SumCarried(_, _)
SumCarried(ts, vis) ==
    IF vis = <<>> THEN 0
    ELSE TabById(ts, Head(vis)).area.width + SumCarried(ts, Tail(vis))

\* Sum of the natural widths of the tabs with the ids of vis.
RECURSIVE SumNatural(_, _)
SumNatural(ts, vis) ==
    IF vis = <<>> THEN 0
    ELSE NaturalWidth(TabById(ts, Head(vis)).item) +
         SumNatural(ts, Tail(vis))

\* vis is a run of consecutive tabs of ts.
ContiguousRun(ts, vis) ==
    \E a \in 1 .. Len(ts) :
        \E b \in a .. Len(ts) : vis = TabIds(SubSeq(ts, a, b))

\* C37 as stated: after a layout pass of a non-empty group the visible tabs
\* are a run of consecutive tabs that includes the current tab, and, when
\* other tabs are visible too, the natural widths of those others sum to at
\* most the allocated width less frame, spacing, the three decoration
\* buttons and the natural width of the current tab.
C37_NaturalBudget ==
    (last.op = "size_allocate" /\ tabs # <<>>) =>
        LET cur == CurrentTab(tabs, current_index)
            others == SelectSeq(visible_tabs, LAMBDA id : id # cur.id)
        IN  /\ ContiguousRun(tabs, visible_tabs)
            /\ cur.id \in Range(visible_tabs)
            /\ others # <<>> =>
                   SumNatural(tabs, others) <=
                       last.arg - FrameWidth - Spacing - DecoButtonReq[1] -
                       DecoButtonReq[1] - DecoButtonReq[1] -
                       NaturalWidth(cur.item)

\* C37 amended: after a layout pass of a non-empty group the visible tabs
\* are a run of consecutive tabs that includes the current tab; when other
\* tabs are visible too, the widths the tabs carry sum to at most the width
\* of the tab strip; and these are the natural widths, so that the budget
\* as stated holds, whenever a size request preceded the pass.
C37_StripBudget ==
    [][(last'.op = "size_allocate" /\ tabs' # <<>>) =>
        LET cur == CurrentTab(tabs', current_index')
            others == SelectSeq(visible_tabs', LAMBDA id : id # cur.id)
        IN  /\ ContiguousRun(tabs', visible_tabs')
            /\ cur.id \in Range(visible_tabs')
            /\ others # <<>> =>
                   SumCarried(tabs', visible_tabs') <= StripWidth(last'.arg)
            /\ (others # <<>> /\ resize_queued) =>
                   SumNatural(tabs', others) <=
                       StripWidth(last'.arg) - NaturalWidth(cur.item)]_vars

\* A layout pass at width 55 without a size request, after the wide tab was
\* squeezed as the only visible tab: a narrow tab is visible next to it, and
\* the natural widths of the two exceed the strip.
C37_Witness ==
    /\ last.op = "size_allocate"
    /\ last.arg = 55
    /\ Len(visible_tabs) = 2
    /\ CurrentTab(tabs, current_index).item = 3
    /\ CurrentTab(tabs, current_index).area.width <
           NaturalWidth(CurrentTab(tabs, current_index).item)

=============================================================================
